---- MODULE Spec2Model ----
(***************************************************************************)
(* A model of the sleaf-llvm compiler pipeline: Lexer (lexer.cpp), Parser  *)
(* (parser.cpp), CodeGenerator (codegen.cpp) and the driver (main.cpp).    *)
(*                                                                         *)
(* A source text is a sequence of characters, each a one-character string  *)
(* (a byte above 0x7F is written "<80>").  Lexemes are strings.  The       *)
(* recursive-descent productions are operators that thread the parser      *)
(* state; a C++ exception is the status "throw" that every caller passes   *)
(* on until Parser::declaration catches it.                                *)
(***************************************************************************)
EXTENDS Integers, Sequences, FiniteSets, TLC

VARIABLES
    pc,          \* position of the driver / of the operation under way
    source,      \* the source text the driver read (main.cpp:433)
    emit_llvm,   \* the --emit-llvm option of the driver
    parser,      \* the Parser object (with the Lexer it reads from)
    statements,  \* the vector parse() is filling, then what generate() is given
    gen,         \* the CodeGenerator object
    run,         \* what the driver did: files written, backend runs, exit status
    lexer,       \* the Lexer object a token stream is read from (main.cpp:178)
    scanned,     \* `token' of run_lexer: the Token the last scan_token returned
    token_count  \* the number of calls of scan_token made on lexer

\* The frame of a loop that reads a token stream.
lexvars == <<lexer, scanned, token_count>>

vars == <<pc, source, emit_llvm, parser, statements, gen, run, lexvars>>

\* A local of a function of the program: K applied to its value v.
With(v, K(_)) == K(v)

(***************************************************************************)
(* Characters                                                              *)
(***************************************************************************)
NUL == "<00>"

Lower ==
    {"a","b","c","d","e","f","g","h","i","j","k","l","m",
     "n","o","p","q","r","s","t","u","v","w","x","y","z"}

Upper ==
    {"A","B","C","D","E","F","G","H","I","J","K","L","M",
     "N","O","P","Q","R","S","T","U","V","W","X","Y","Z"}

Digits == {"0","1","2","3","4","5","6","7","8","9"}

NonAscii == {"<80>", "<FF>"}

is_alpha(c) == c \in Lower \cup Upper \cup {"_"} \cup NonAscii

is_digit(c) == c \in Digits

is_hex_digit(c) ==
    is_digit(c) \/ c \in {"a","b","c","d","e","f"} \/ c \in {"A","B","C","D","E","F"}

is_bin_digit(c) == c \in {"0", "1"}

is_alpha_numeric(c) == is_alpha(c) \/ is_digit(c)

(***************************************************************************)
(* Lexer.  A lexer state L is [m_SOURCE, m_START, m_CURRENT, m_LINE,       *)
(* m_COLUMN]; m_START and m_CURRENT are 0-based offsets, as in the code.   *)
(***************************************************************************)
Token(t, l, ln, col) == [type |-> t, lexeme |-> l, line |-> ln, column |-> col]

\* No token returned yet.
NoToken == Token("NONE", "", 0, 0)

\* Lexer::Lexer(std::string source)
Lexer(src) ==
    [m_SOURCE |-> src, m_START |-> 0, m_CURRENT |-> 0, m_LINE |-> 1, m_COLUMN |-> 1]

LexIsAtEnd(L) == L.m_CURRENT >= Len(L.m_SOURCE)

LexAdvance(L) ==
    IF LexIsAtEnd(L) THEN L
    ELSE IF L.m_SOURCE[L.m_CURRENT + 1] = "\n"
         THEN [L EXCEPT !.m_CURRENT = @ + 1, !.m_LINE = @ + 1, !.m_COLUMN = 1]
         ELSE [L EXCEPT !.m_CURRENT = @ + 1, !.m_COLUMN = @ + 1]

peek(L) == IF LexIsAtEnd(L) THEN NUL ELSE L.m_SOURCE[L.m_CURRENT + 1]

peek_next(L) ==
    IF L.m_CURRENT + 1 >= Len(L.m_SOURCE) THEN NUL ELSE L.m_SOURCE[L.m_CURRENT + 2]

\* match(expected): the lexer state after it, advanced iff the character matched.
LexMatches(L, expected) == ~LexIsAtEnd(L) /\ L.m_SOURCE[L.m_CURRENT + 1] = expected

\* std::string::substr(pos, n): the characters from offset pos, at most n of them.
RECURSIVE substr(_, _, _)
substr(str, pos, n) ==
    IF n <= 0 \/ pos >= Len(str) THEN ""
    ELSE str[pos + 1] \o substr(str, pos + 1, n - 1)

\* lexeme.length() of substr(pos, n), counted in characters of the source.
substr_length(str, pos, n) ==
    IF n <= 0 \/ pos >= Len(str) THEN 0
    ELSE IF pos + n > Len(str) THEN Len(str) - pos ELSE n

make_token(L, type) ==
    Token(type,
          substr(L.m_SOURCE, L.m_START, L.m_CURRENT - L.m_START),
          L.m_LINE,
          L.m_COLUMN - substr_length(L.m_SOURCE, L.m_START, L.m_CURRENT - L.m_START))

error_token(L, message) == Token("ERROR", message, L.m_LINE, L.m_COLUMN)

RECURSIVE skip_whitespace(_)
skip_whitespace(L) ==
    IF LexIsAtEnd(L) THEN L
    ELSE IF peek(L) \in {" ", "\r", "\t", "\n"} THEN skip_whitespace(LexAdvance(L))
    ELSE L

RECURSIVE skip_line_comment(_)
skip_line_comment(L) ==
    IF peek(L) # "\n" /\ ~LexIsAtEnd(L) THEN skip_line_comment(LexAdvance(L)) ELSE L

RECURSIVE skip_block_comment(_)
skip_block_comment(L) ==
    IF LexIsAtEnd(L) THEN L
    ELSE IF peek(L) = "*" /\ peek_next(L) = "/" THEN LexAdvance(LexAdvance(L))
    ELSE skip_block_comment(LexAdvance(L))

keywords ==
    [text \in {"func", "return", "i8", "i16", "i32", "i64", "u8", "u16", "u32", "u64",
               "f32", "f64", "bool", "string", "char", "void", "true", "false", "if",
               "else", "while", "for", "struct", "import", "const", "var"} |->
        CASE text = "func" -> "FUNC"       [] text = "return" -> "RETURN"
          [] text = "i8" -> "I8"           [] text = "i16" -> "I16"
          [] text = "i32" -> "I32"         [] text = "i64" -> "I64"
          [] text = "u8" -> "U8"           [] text = "u16" -> "U16"
          [] text = "u32" -> "U32"         [] text = "u64" -> "U64"
          [] text = "f32" -> "F32"         [] text = "f64" -> "F64"
          [] text = "bool" -> "BOOL"       [] text = "string" -> "STRING"
          [] text = "char" -> "CHAR"       [] text = "void" -> "VOID"
          [] text = "true" -> "TRUE"       [] text = "false" -> "FALSE"
          [] text = "if" -> "IF"           [] text = "else" -> "ELSE"
          [] text = "while" -> "WHILE"     [] text = "for" -> "FOR"
          [] text = "struct" -> "STRUCT"   [] text = "import" -> "IMPORT"
          [] text = "const" -> "CONST"     [] text = "var" -> "VAR"]

\* A run that stops at the first digit.
RECURSIVE LetterRun(_)
LetterRun(L) ==
    IF is_alpha(peek(L)) THEN LetterRun(LexAdvance(L)) ELSE L

RECURSIVE IdentifierRun(_)
IdentifierRun(L) ==
    IF is_alpha_numeric(peek(L)) THEN IdentifierRun(LexAdvance(L)) ELSE L

Plain(L, type) == [lex |-> L, tok |-> make_token(L, type)]

scan_identifier(L0) ==
    With(IdentifierRun(L0), LAMBDA L :
    With(substr(L.m_SOURCE, L.m_START, L.m_CURRENT - L.m_START), LAMBDA text :
    Plain(L, IF text \in DOMAIN keywords THEN keywords[text] ELSE "IDENTIFIER")))

\* The digit loop of scan_number: [lex, is_float, error].
RECURSIVE NumberRun(_, _, _, _)
NumberRun(L, is_float, is_hex, is_bin) ==
    IF LexIsAtEnd(L) THEN [lex |-> L, is_float |-> is_float, error |-> FALSE]
    ELSE With(peek(L), LAMBDA c :
         IF c = "." THEN
             IF is_float \/ is_hex \/ is_bin
             THEN [lex |-> L, is_float |-> is_float, error |-> TRUE]
             ELSE NumberRun(LexAdvance(L), TRUE, is_hex, is_bin)
         ELSE IF c = "_" THEN NumberRun(LexAdvance(L), is_float, is_hex, is_bin)
         ELSE IF (IF is_hex THEN is_hex_digit(c)
                  ELSE IF is_bin THEN is_bin_digit(c) ELSE is_digit(c))
              THEN NumberRun(LexAdvance(L), is_float, is_hex, is_bin)
         ELSE [lex |-> L, is_float |-> is_float, error |-> FALSE])

RECURSIVE DigitRun(_)
DigitRun(L) == IF is_digit(peek(L)) THEN DigitRun(LexAdvance(L)) ELSE L

\* The exponent of scan_number from L, just past the `e': a sign, then digits.
Exponent(L) == DigitRun(IF peek(L) \in {"+", "-"} THEN LexAdvance(L) ELSE L)

scan_number(L0) ==
    With((L0.m_CURRENT - L0.m_START = 1) /\ L0.m_SOURCE[L0.m_START + 1] = "0",
         LAMBDA prefixed :
    With(peek(L0) = "x" /\ prefixed, LAMBDA is_hex :
    With(~is_hex /\ peek(L0) = "b" /\ prefixed, LAMBDA is_bin :
    With(NumberRun(IF is_hex \/ is_bin THEN LexAdvance(L0) ELSE L0, FALSE, is_hex, is_bin),
         LAMBDA r :
    IF r.error THEN [lex |-> r.lex, tok |-> error_token(r.lex, "Invalid numeric format")]
    ELSE With(~is_hex /\ ~is_bin /\ peek(r.lex) \in {"e", "E"}, LAMBDA exponent :
         Plain(IF exponent THEN Exponent(LexAdvance(r.lex)) ELSE r.lex,
               IF r.is_float \/ exponent THEN "FLOAT_LITERAL" ELSE "INT_LITERAL"))))))

RECURSIVE StringRun(_)
StringRun(L) ==
    IF ~LexIsAtEnd(L) /\ peek(L) # "\""
    THEN StringRun(LexAdvance(IF peek(L) = "\\" THEN LexAdvance(L) ELSE L))
    ELSE L

scan_string(L0) ==
    With(StringRun(L0), LAMBDA L :
    IF LexIsAtEnd(L) THEN [lex |-> L, tok |-> error_token(L, "Unterminated string")]
    ELSE Plain(LexAdvance(L), "STRING_LITERAL"))

\* A scan_char that reports the quote and hands it back to the source.
QuoteHandedBack(L0) ==
    [lex |-> [L0 EXCEPT !.m_CURRENT = L0.m_START, !.m_COLUMN = @ - 1],
     tok |-> error_token(L0, "Unterminated character")]

\* scan_token has consumed the opening quote.  L1 is past the advance()
\* scan_char starts with, L2 past the next character or past the backslash,
\* L4 past the character or its escape.
scan_char(L0) ==
    With(LexAdvance(L0), LAMBDA L1 :
    IF LexIsAtEnd(L1) THEN [lex |-> L1, tok |-> error_token(L1, "Unterminated character")]
    ELSE With(LexAdvance(L1), LAMBDA L2 :
         IF peek(L1) = "\\" /\ LexIsAtEnd(L2)
         THEN [lex |-> L2, tok |-> error_token(L2, "Unterminated character after escape")]
         ELSE With(IF peek(L1) = "\\" THEN LexAdvance(L2) ELSE L2, LAMBDA L4 :
              IF peek(L4) # "'"
              THEN [lex |-> L4, tok |-> error_token(L4, "Character too long")]
              ELSE Plain(LexAdvance(L4), "CHAR_LITERAL"))))

\* The single-character tokens of scan_token's switch.
SingleChar ==
    [c \in {"(", ")", "{", "}", "[", "]", ",", ";", ":", ".", "?", "*", "%"} |->
        CASE c = "(" -> "LEFT_PAREN"    [] c = ")" -> "RIGHT_PAREN"
          [] c = "{" -> "LEFT_BRACE"    [] c = "}" -> "RIGHT_BRACE"
          [] c = "[" -> "LEFT_BRACKET"  [] c = "]" -> "RIGHT_BRACKET"
          [] c = "," -> "COMMA"         [] c = ";" -> "SEMICOLON"
          [] c = ":" -> "COLON"         [] c = "." -> "DOT"
          [] c = "?" -> "QUESTION"      [] c = "*" -> "STAR"
          [] c = "%" -> "PERCENT"]

\* match(expected) ? type : ...  -- the token `type' when the next character
\* is `expected' (which is then consumed), else `otherwise'.
Matched(L, expected, type, otherwise) ==
    IF LexMatches(L, expected) THEN Plain(LexAdvance(L), type) ELSE otherwise

\* Lexer::scan_token: [lex |-> the lexer afterwards, tok |-> the token returned].
\* Lw is the lexer past the white space, Ls with m_START set, c the character
\* advance() returns and L the lexer past it.
RECURSIVE scan_token(_)
scan_token(L0) ==
    With(skip_whitespace(L0), LAMBDA Lw :
    IF LexIsAtEnd(Lw) THEN Plain(Lw, "END_OF_FILE")
    ELSE
    With([Lw EXCEPT !.m_START = Lw.m_CURRENT], LAMBDA Ls :
    With(peek(Ls), LAMBDA c :
    With(LexAdvance(Ls), LAMBDA L :
        IF is_alpha(c) THEN scan_identifier(L)
        ELSE IF is_digit(c) THEN scan_number(L)
        ELSE IF c \in DOMAIN SingleChar THEN Plain(L, SingleChar[c])
        ELSE CASE c = "+" -> Matched(L, "+", "PLUS_PLUS",
                                 Matched(L, "=", "PLUS_EQUAL", Plain(L, "PLUS")))
               [] c = "-" -> Matched(L, ">", "ARROW", Plain(L, "MINUS"))
               [] c = "/" -> IF LexMatches(L, "/")
                             THEN scan_token(skip_line_comment(LexAdvance(L)))
                             ELSE IF LexMatches(L, "*")
                             THEN scan_token(skip_block_comment(LexAdvance(L)))
                             ELSE Plain(L, "SLASH")
               [] c = "=" -> Matched(L, "=", "EQUAL_EQUAL", Plain(L, "EQUAL"))
               [] c = "!" -> Matched(L, "=", "BANG_EQUAL", Plain(L, "BANG"))
               [] c = "<" -> Matched(L, "=", "LESS_EQUAL", Plain(L, "LESS"))
               [] c = ">" -> Matched(L, "=", "GREATER_EQUAL", Plain(L, "GREATER"))
               [] c = "&" -> Matched(L, "&", "AMPERSAND_AMP", Plain(L, "AMPERSAND"))
               [] c = "|" -> Matched(L, "|", "PIPE_PIPE", Plain(L, "PIPE"))
               [] c = "\"" -> scan_string(L)
               [] c = "'" -> scan_char(L)
               [] OTHER -> [lex |-> L,
                            tok |-> error_token(L, "Unexpected character: " \o c)]))))

(***************************************************************************)
(* AST nodes (ast.hpp).  A node is a record with a `kind'; Null is a null  *)
(* unique_ptr.                                                             *)
(***************************************************************************)
Null == [kind |-> "null"]

BlockStmt(stmts) == [kind |-> "BlockStmt", statements |-> stmts]

FunctionDecl(name, params, return_type, body) ==
    [kind |-> "FunctionDecl", name |-> name, params |-> params,
     return_type |-> return_type, body |-> body]

VarDecl(type, name, initializer, is_const) ==
    [kind |-> "VarDecl", type |-> type, name |-> name,
     initializer |-> initializer, is_const |-> is_const]

IfStmt(condition, then_branch, else_branch) ==
    [kind |-> "IfStmt", condition |-> condition,
     then_branch |-> then_branch, else_branch |-> else_branch]

WhileStmt(condition, body) == [kind |-> "WhileStmt", condition |-> condition, body |-> body]

ReturnStmt(value) == [kind |-> "ReturnStmt", value |-> value]

ExpressionStmt(expr) == [kind |-> "ExpressionStmt", expr |-> expr]

BinaryExpr(op, left, right) == [kind |-> "BinaryExpr", op |-> op, left |-> left, right |-> right]

AssignExpr(op, target, value) ==
    [kind |-> "AssignExpr", op |-> op, target |-> target, value |-> value]

UnaryExpr(op, operand) == [kind |-> "UnaryExpr", op |-> op, operand |-> operand]

CallExpr(callee, arguments) == [kind |-> "CallExpr", callee |-> callee, arguments |-> arguments]

Identifier(name) == [kind |-> "Identifier", name |-> name]

Literal(type, value) == [kind |-> "Literal", type |-> type, value |-> value]

GroupingExpr(expression) == [kind |-> "GroupingExpr", expression |-> expression]

(***************************************************************************)
(* Parser.  A parser state p is                                            *)
(*   [lexer, m_current, m_previous, m_error_count, m_panic_mode, cerr,     *)
(*    pulls]                                                               *)
(* where lexer is the state of the Lexer it holds a reference to, cerr the *)
(* diagnostics written to std::cerr, and pulls counts the tokens taken     *)
(* from the lexer (a history of advance(), not a field of the class).      *)
(* A production returns [p, node, st]: st is "ok" when it returned, "throw"*)
(* when a std::runtime_error left it, "hang" when it never returns.        *)
(***************************************************************************)
Ok(p, node) == [p |-> p, node |-> node, st |-> "ok"]

Throw(p) == [p |-> p, node |-> Null, st |-> "throw"]

Hang(p) == [p |-> p, node |-> Null, st |-> "hang"]

Failed(r) == [p |-> r.p, node |-> Null, st |-> r.st]

is_at_end(p) == p.m_current.type = "END_OF_FILE"

\* An error() that reports without counting.
ErrorUncounted(p, token, message) ==
    IF p.m_panic_mode THEN p
    ELSE [p EXCEPT !.m_panic_mode = TRUE,
                   !.cerr = Append(@, [line |-> token.line, column |-> token.column,
                                       message |-> message])]

error(p, token, message) ==
    IF p.m_panic_mode THEN p
    ELSE [p EXCEPT !.m_panic_mode = TRUE,
                   !.m_error_count = @ + 1,
                   !.cerr = Append(@, [line |-> token.line, column |-> token.column,
                                       message |-> message])]

\* The body of the `if' of advance(): take the next token from the lexer.
PullToken(p) ==
    With(scan_token(p.lexer), LAMBDA r :
    With([p EXCEPT !.lexer = r.lex, !.m_current = r.tok, !.pulls = @ + 1], LAMBDA p1 :
    IF r.tok.type = "ERROR" THEN error(p1, r.tok, r.tok.lexeme) ELSE p1))

advance(p) ==
    With([p EXCEPT !.m_previous = p.m_current], LAMBDA p1 :
    IF ~is_at_end(p1) THEN PullToken(p1) ELSE p1)

check(p, type) == IF is_at_end(p) THEN FALSE ELSE p.m_current.type = type

check_any(p, types) == \E type \in types : check(p, type)

consume(p, type, message) ==
    IF check(p, type) THEN advance(p) ELSE error(p, p.m_current, message)

\* Parser::Parser(Lexer&): both slots hold END_OF_FILE at (0, 0), then advance().
\* is_at_end() is true of that placeholder, so advance() only copies it.
ParserNew(L) ==
    [lexer |-> L,
     m_current |-> Token("END_OF_FILE", "", 0, 0),
     m_previous |-> Token("END_OF_FILE", "", 0, 0),
     m_error_count |-> 0,
     m_panic_mode |-> FALSE,
     cerr |-> <<>>,
     pulls |-> 0]

ParserCtor(L) == advance(ParserNew(L))

had_error(p) == p.m_error_count > 0

RecoveryTokens == {"FUNC", "VAR", "CONST", "FOR", "IF", "WHILE", "RETURN"}

RECURSIVE synchronize_after_error(_, _)
synchronize_after_error(p, recovery_tokens) ==
    IF is_at_end(p) THEN p
    ELSE IF p.m_previous.type = "SEMICOLON" THEN p
    ELSE IF check_any(p, recovery_tokens) THEN p
    ELSE synchronize_after_error(advance(p), recovery_tokens)

synchronize(p) ==
    synchronize_after_error([p EXCEPT !.m_panic_mode = FALSE], RecoveryTokens)

type_map ==
    [text \in {"i8", "i16", "i32", "i64", "u8", "u16", "u32", "u64",
               "f32", "f64", "bool", "string", "char", "void"} |->
        CASE text = "i8" -> "I8"       [] text = "i16" -> "I16"
          [] text = "i32" -> "I32"     [] text = "i64" -> "I64"
          [] text = "u8" -> "U8"       [] text = "u16" -> "U16"
          [] text = "u32" -> "U32"     [] text = "u64" -> "U64"
          [] text = "f32" -> "F32"     [] text = "f64" -> "F64"
          [] text = "bool" -> "BOOL"   [] text = "string" -> "STRING"
          [] text = "char" -> "CHAR"   [] text = "void" -> "VOID"]

\* Parser::type_annotation: [p, type].
type_annotation(p) ==
    IF p.m_current.type # "IDENTIFIER"
    THEN [p |-> error(p, p.m_current, "Expect type identifier"), type |-> "ERROR"]
    ELSE IF p.m_current.lexeme \notin DOMAIN type_map
    THEN [p |-> error(p, p.m_current, "Unknown type: " \o p.m_current.lexeme),
          type |-> "ERROR"]
    ELSE [p |-> advance(p), type |-> type_map[p.m_current.lexeme]]

(***************************************************************************)
(* The productions.  Each takes the parser state on entry and returns      *)
(* [p, node, st].                                                          *)
(***************************************************************************)
RECURSIVE DeclarationBody(_), declaration(_), statement(_), block(_), BlockLoop(_, _), function_decl(_),
          ParameterLoop(_, _), if_statement(_), while_statement(_), for_statement(_),
          var_declaration(_, _), return_statement(_), expression_statement(_),
          expression(_), assignment(_), ternary(_), BinaryLevel(_, _),
          BinaryLoop(_, _, _), LevelLoops(_, _, _), unary(_), call(_), CallLoop(_, _), finish_call(_, _),
          ArgumentLoop(_, _), primary(_)

\* The control state of the parser: everything its decisions depend on
\* (m_error_count and cerr are only written).
Control(p) == <<p.lexer, p.m_current, p.m_previous, p.m_panic_mode>>

\* A loop around declaration() whose iteration left the control state as it
\* found it repeats that iteration for ever.
NoProgress(before, after) == Control(after) = Control(before)

\* A production goes on with the result r of a part of it, unless that part
\* was left by an exception.
Bind(r, K(_)) == IF r.st # "ok" THEN Failed(r) ELSE K(r)

\* A statement of a production that sets a local to v, and the rest K of the
\* production.  The test has v evaluated here, before the rest, which is the
\* order of the program; K(v) alone would leave v to be evaluated where K
\* first reads it, inside whatever K is then calling.
Step(v, K(_)) == IF v = v THEN K(v) ELSE K(v)

\* The try block of declaration().
DeclarationBody(p) ==
    CASE check(p, "FUNC") -> function_decl(advance(p))
      [] check(p, "VAR") -> var_declaration(advance(p), FALSE)
      [] check(p, "CONST") -> var_declaration(advance(p), TRUE)
      [] OTHER -> statement(p)

\* The catch clause of declaration(), r being how the try block ended.
Caught(r) == IF r.st = "throw" THEN Ok(synchronize(r.p), Null) ELSE r

declaration(p) == Caught(DeclarationBody(p))

\* parse_parameter_list's do-while: [p, params].
ParameterLoop(p, params) ==
    Step(consume(p, "IDENTIFIER", "Expect parameter name"), LAMBDA p1 :
    Step(type_annotation(consume(p1, "COLON", "Expect ':' after parameter name")), LAMBDA t :
    Step(Append(params, <<p1.m_previous.lexeme, t.type>>), LAMBDA ps :
    IF check(t.p, "COMMA") THEN ParameterLoop(advance(t.p), ps)
    ELSE [p |-> t.p, params |-> ps])))

parse_parameter_list(p) ==
    IF ~check(p, "RIGHT_PAREN") THEN ParameterLoop(p, <<>>) ELSE [p |-> p, params |-> <<>>]

\* The return type of function_decl: [p, type].
ReturnType(p) ==
    IF check(p, "ARROW") THEN type_annotation(advance(p)) ELSE [p |-> p, type |-> "VOID"]

function_decl(p) ==
    Step(consume(p, "IDENTIFIER", "Expect function name"), LAMBDA p1 :
    Step(parse_parameter_list(consume(p1, "LEFT_PAREN", "Expect '(' after function name")),
         LAMBDA pl :
    Step(ReturnType(consume(pl.p, "RIGHT_PAREN", "Expect ')' after parameters")), LAMBDA t :
    Bind(block(t.p), LAMBDA body :
    Ok(body.p, FunctionDecl(p1.m_previous.lexeme, pl.params, t.type, body.node))))))

statement(p) ==
    CASE check(p, "IF") -> if_statement(advance(p))
      [] check(p, "WHILE") -> while_statement(advance(p))
      [] check(p, "FOR") -> for_statement(advance(p))
      [] check(p, "RETURN") -> return_statement(advance(p))
      [] check(p, "LEFT_BRACE") -> block(advance(p))
      [] OTHER -> expression_statement(p)

\* The while loop of block(): [p, node |-> the statements so far, st].
BlockLoop(p, stmts) ==
    IF ~check(p, "RIGHT_BRACE") /\ ~is_at_end(p)
    THEN Bind(declaration(p), LAMBDA r :
         IF NoProgress(p, r.p) THEN Hang(r.p)
         ELSE BlockLoop(r.p, Append(stmts, r.node)))
    ELSE Ok(p, stmts)

block(p) ==
    Bind(BlockLoop(p, <<>>), LAMBDA l :
    Ok(consume(l.p, "RIGHT_BRACE", "Expect '}' after block"), BlockStmt(l.node)))

\* The else clause of if_statement.
ElseBranch(p) == IF check(p, "ELSE") THEN statement(advance(p)) ELSE Ok(p, Null)

if_statement(p) ==
    Bind(expression(consume(p, "LEFT_PAREN", "Expect '(' after 'if'")), LAMBDA condition :
    Bind(statement(consume(condition.p, "RIGHT_PAREN", "Expect ')' after if condition")),
         LAMBDA then_branch :
    Bind(ElseBranch(then_branch.p), LAMBDA else_branch :
    Ok(else_branch.p, IfStmt(condition.node, then_branch.node, else_branch.node)))))

while_statement(p) ==
    Bind(expression(consume(p, "LEFT_PAREN", "Expect '(' after 'while'")), LAMBDA condition :
    Bind(statement(consume(condition.p, "RIGHT_PAREN", "Expect ')' after while condition")),
         LAMBDA body :
    Ok(body.p, WhileStmt(condition.node, body.node))))

\* The expression statement of a for initializer.  dynamic_cast<VarDecl*> of
\* an ExpressionStmt is always null, so it is reported and dropped.
ForExpression(p) ==
    Bind(expression_statement(p), LAMBDA expr :
    Ok(error(expr.p, expr.p.m_previous,
             "Expect variable declaration in for loop initializer"), Null))

\* The initializer clause of for_statement.
ForInitializer(p) ==
    IF check(p, "VAR") THEN var_declaration(advance(p), FALSE)
    ELSE IF check(p, "SEMICOLON") THEN Ok(advance(p), Null)
    ELSE ForExpression(p)

\* The condition and the increment clauses of for_statement.
ForClause(p, closing) == IF ~check(p, closing) THEN expression(p) ELSE Ok(p, Null)

\* The while loop a for statement is rewritten into.
ForLoop(initializer, condition, increment, body) ==
    LET loop_body == IF increment # Null
                     THEN BlockStmt(<<body, ExpressionStmt(increment)>>)
                     ELSE body
        cond == IF condition = Null THEN Literal("TRUE", "true") ELSE condition
        while_loop == WhileStmt(cond, loop_body)
    IN  IF initializer # Null THEN BlockStmt(<<initializer, while_loop>>) ELSE while_loop

for_statement(p) ==
    Bind(ForInitializer(consume(p, "LEFT_PAREN", "Expect '(' after 'for'")),
         LAMBDA initializer :
    Bind(ForClause(initializer.p, "SEMICOLON"), LAMBDA condition :
    Bind(ForClause(consume(condition.p, "SEMICOLON", "Expect ';' after loop condition"),
                   "RIGHT_PAREN"), LAMBDA increment :
    Bind(statement(consume(increment.p, "RIGHT_PAREN", "Expect ')' after for clauses")),
         LAMBDA body :
    Ok(body.p, ForLoop(initializer.node, condition.node, increment.node, body.node))))))

\* The initializer of var_declaration.
Initializer(p, is_const) ==
    IF check(p, "EQUAL") THEN expression(advance(p))
    ELSE IF is_const THEN Ok(error(p, p.m_previous, "Constant must be initialized"), Null)
    ELSE Ok(p, Null)

var_declaration(p, is_const) ==
    Step(type_annotation(p), LAMBDA t :
    Step(consume(t.p, "IDENTIFIER", "Expect variable name"), LAMBDA p1 :
    Bind(Initializer(p1, is_const), LAMBDA initializer :
    Ok(consume(initializer.p, "SEMICOLON", "Expect ';' after variable declaration"),
       VarDecl(t.type, p1.m_previous.lexeme, initializer.node, is_const)))))

\* The value of return_statement.
ReturnValue(p) == IF ~check(p, "SEMICOLON") THEN expression(p) ELSE Ok(p, Null)

return_statement(p) ==
    Bind(ReturnValue(p), LAMBDA value :
    Ok(consume(value.p, "SEMICOLON", "Expect ';' after return value"),
       ReturnStmt(value.node)))

expression_statement(p) ==
    Bind(expression(p), LAMBDA expr :
    Ok(consume(expr.p, "SEMICOLON", "Expect ';' after expression"),
       ExpressionStmt(expr.node)))

expression(p) == assignment(p)

\* The right-hand side of assignment, after the operator.
AssignmentValue(expr, p1) ==
    Bind(assignment(p1), LAMBDA value :
    IF expr.node.kind = "Identifier"
    THEN Ok(value.p, AssignExpr(p1.m_previous.type, expr.node, value.node))
    ELSE Ok(error(value.p, value.p.m_previous, "Invalid assignment target"), expr.node))

assignment(p) ==
    Bind(ternary(p), LAMBDA expr :
    IF check_any(expr.p, {"EQUAL", "PLUS_EQUAL"}) THEN AssignmentValue(expr, advance(expr.p))
    ELSE expr)

\* The branches of ternary, after the `?'.
TernaryBranches(expr, p1) ==
    Bind(expression(p1), LAMBDA then_branch :
    Bind(ternary(consume(then_branch.p, "COLON", "Expect ':' in ternary expression")),
         LAMBDA else_branch :
    Ok(else_branch.p,
       BinaryExpr("QUESTION", expr.node,
                  BinaryExpr("COLON", then_branch.node, else_branch.node)))))

ternary(p) ==
    Bind(BinaryLevel(p, 1), LAMBDA expr :
    IF check(expr.p, "QUESTION") THEN TernaryBranches(expr, advance(expr.p)) ELSE expr)

\* The six left-associative binary levels, lowest first: logic_or, logic_and,
\* equality, comparison, term, factor.
LevelOperators ==
    <<{"PIPE_PIPE"}, {"AMPERSAND_AMP"}, {"EQUAL_EQUAL", "BANG_EQUAL"},
      {"LESS", "LESS_EQUAL", "GREATER", "GREATER_EQUAL"}, {"PLUS", "MINUS"},
      {"STAR", "SLASH", "PERCENT"}>>

\* An operand read at the level of its operator.
SameLevel(p, level) == BinaryLevel(p, level)

Operand(p, level) == IF level = Len(LevelOperators) THEN unary(p) ELSE BinaryLevel(p, level + 1)

\* The right operand of a binary level, after the operator.
RightOperand(p1, level, expr) ==
    Bind(Operand(p1, level), LAMBDA right :
    BinaryLoop(right.p, level, BinaryExpr(p1.m_previous.type, expr, right.node)))

\* while (match_any(ops)) { op = previous; right = operand(); expr = Binary(...) }
BinaryLoop(p, level, expr) ==
    IF check_any(p, LevelOperators[level]) THEN RightOperand(advance(p), level, expr)
    ELSE Ok(p, expr)

\* The loops of the levels l, l - 1 .. level, in that order, r being the
\* operand the loop of level l starts from.
LevelLoops(r, l, level) ==
    IF r.st # "ok" \/ l < level THEN r
    ELSE LevelLoops(BinaryLoop(r.p, l, r.node), l - 1, level)

\* A binary level is  expr = <the next level>(); while (match_any(ops)) ...;
\* so the first thing the levels from `level' to factor do is to call the
\* next one, down to unary(), and their loops then run from factor's outwards.
BinaryLevel(p, level) == LevelLoops(unary(p), Len(LevelOperators), level)

logic_or(p) == BinaryLevel(p, 1)

logic_and(p) == BinaryLevel(p, 2)

equality(p) == BinaryLevel(p, 3)

comparison(p) == BinaryLevel(p, 4)

term(p) == BinaryLevel(p, 5)

factor(p) == BinaryLevel(p, 6)

\* The operand of unary, after the operator.
UnaryOperand(p1) ==
    Bind(unary(p1), LAMBDA operand :
    Ok(operand.p, UnaryExpr(p1.m_previous.type, operand.node)))

unary(p) ==
    IF check_any(p, {"BANG", "MINUS", "PLUS_PLUS"}) THEN UnaryOperand(advance(p))
    ELSE call(p)

\* parse_argument_list's do-while: [p, node |-> the arguments, st].
ArgumentLoop(p, arguments) ==
    Bind(expression(p), LAMBDA e :
    IF check(e.p, "COMMA") THEN ArgumentLoop(advance(e.p), Append(arguments, e.node))
    ELSE Ok(e.p, Append(arguments, e.node)))

parse_argument_list(p) ==
    IF ~check(p, "RIGHT_PAREN") THEN ArgumentLoop(p, <<>>) ELSE Ok(p, <<>>)

finish_call(p, callee) ==
    Bind(parse_argument_list(p), LAMBDA arguments :
    Ok(consume(arguments.p, "RIGHT_PAREN", "Expect ')' after arguments"),
       CallExpr(callee, arguments.node)))

CallLoop(p, expr) ==
    IF check(p, "LEFT_PAREN")
    THEN Bind(finish_call(advance(p), expr), LAMBDA c : CallLoop(c.p, c.node))
    ELSE Ok(p, expr)

call(p) == Bind(primary(p), LAMBDA expr : CallLoop(expr.p, expr.node))

\* The parenthesized expression of primary, after the `('.
Grouping(p) ==
    Bind(expression(p), LAMBDA expr :
    Ok(consume(expr.p, "RIGHT_PAREN", "Expect ')' after expression"),
       GroupingExpr(expr.node)))

primary(p) ==
    CASE check(p, "FALSE") -> Ok(advance(p), Literal("FALSE", "false"))
      [] check(p, "TRUE") -> Ok(advance(p), Literal("TRUE", "true"))
      [] check_any(p, {"INT_LITERAL", "FLOAT_LITERAL", "STRING_LITERAL", "CHAR_LITERAL"}) ->
            Ok(advance(p), Literal(p.m_current.type, p.m_current.lexeme))
      [] check(p, "IDENTIFIER") -> Ok(advance(p), Identifier(p.m_current.lexeme))
      [] check(p, "LEFT_PAREN") -> Grouping(advance(p))
      [] OTHER -> Throw(error(p, p.m_current, "Expect expression"))

\* The while loop of parse(): [p, node |-> the statements, st].
RECURSIVE ParseLoop(_, _)
ParseLoop(p, stmts) ==
    IF ~is_at_end(p)
    THEN Bind(declaration(p), LAMBDA r :
         IF NoProgress(p, r.p) THEN Hang(r.p)
         ELSE ParseLoop(r.p, Append(stmts, r.node)))
    ELSE Ok(p, stmts)

parse(p) == ParseLoop(p, <<>>)

(***************************************************************************)
(* CodeGenerator.  The IR module is modelled by its functions and blocks:  *)
(*   functions : sequence of [name, ret, params, layout], layout being the *)
(*               function's basic blocks in order (indices into blocks);   *)
(*   blocks    : sequence of [label, instrs]; a block that is in no layout *)
(*               has been created but not yet inserted into a function;    *)
(*   insert    : the builder's insertion block (0: none).                  *)
(* An instruction is [id, op, type, operands, targets, callee]; a value is *)
(* null, a constant, a function argument or the result of an instruction.  *)
(* Where the code's behaviour is undefined (a null llvm::Value* is         *)
(* dereferenced) the outcome is drawn from UBOutcomes: the process aborts, *)
(* or the undefined test answers yes or no and lowering goes on.           *)
(***************************************************************************)
UBOutcomes == {"abort", "yes", "no"}

NullValue == [kind |-> "null"]

ConstValue(type, text) == [kind |-> "const", type |-> type, text |-> text]

ArgValue(name, type) == [kind |-> "arg", type |-> type, name |-> name]

InstValue(id, type) == [kind |-> "inst", type |-> type, id |-> id]

\* The result of an alloca: a pointer to a stack slot of the allocated type.
SlotValue(id, allocated) == [kind |-> "slot", type |-> "ptr", id |-> id, allocated |-> allocated]

GarbageFunction == "<garbage>"

\* CodeGenerator::CodeGenerator and the member initializers of codegen.hpp.
\* proto_index and visit_index are the positions of the two loops of
\* generate(); body_entries is no member: it keeps, for each function body
\* lowered, the declaration and named_values as the body found it, and
\* body_exits what the body left behind it; if_exits keeps, for each IfStmt
\* lowered, the blocks its lowering went through.
CodeGenerator ==
    [functions |-> <<>>, blocks |-> <<>>, insert |-> 0, next_id |-> 1,
     named_values |-> {}, current_function |-> 0, current_value |-> NullValue,
     has_main_function |-> FALSE, log |-> <<>>, crashed |-> FALSE,
     proto_index |-> 1, visit_index |-> 1, body_entries |-> <<>>, body_exits |-> <<>>,
     if_exits |-> <<>>]

get_llvm_type(type) ==
    CASE type \in {"I8", "U8"} -> "i8"
      [] type \in {"I16", "U16"} -> "i16"
      [] type \in {"I32", "U32"} -> "i32"
      [] type \in {"I64", "U64"} -> "i64"
      [] type = "F32" -> "float"
      [] type = "F64" -> "double"
      [] type = "BOOL" -> "i1"
      [] type = "VOID" -> "void"
      [] OTHER -> "i32"

isIntegerTy(t) == t \in {"i1", "i8", "i16", "i32", "i64"}

LOG_ERROR(g, message) == [g EXCEPT !.log = Append(@, message)]

Crash(g) == [g EXCEPT !.crashed = TRUE]

\* IRBuilder::Insert: the instruction goes to the end of the insertion block,
\* or nowhere when the builder has no insertion point.
Emit(g, op, type, operands, targets, callee) ==
    LET ins == [id |-> g.next_id, op |-> op, type |-> type, operands |-> operands,
                targets |-> targets, callee |-> callee]
    IN  [g EXCEPT !.next_id = @ + 1,
                  !.blocks = IF g.insert = 0 THEN @
                             ELSE [@ EXCEPT ![g.insert].instrs = Append(@, ins)]]

\* llvm::BasicBlock::Create(context, label, fn): fn = 0 leaves the block detached.
AttachBlock(g, fn, b) == [g EXCEPT !.functions[fn].layout = Append(@, b)]

CreateBlock(g, label, fn) ==
    LET g1 == [g EXCEPT !.blocks = Append(@, [label |-> label, instrs |-> <<>>])] IN
    IF fn = 0 THEN g1 ELSE AttachBlock(g1, fn, Len(g1.blocks))

SetInsertPoint(g, b) == [g EXCEPT !.insert = b]

\* builder.GetInsertBlock()->getParent()
RECURSIVE ParentFrom(_, _, _)
ParentFrom(g, b, fn) ==
    IF fn > Len(g.functions) THEN 0
    ELSE IF \E i \in 1..Len(g.functions[fn].layout) : g.functions[fn].layout[i] = b THEN fn
    ELSE ParentFrom(g, b, fn + 1)

getParent(g, b) == ParentFrom(g, b, 1)

\* module->getFunction(name): index of the function of that name, 0 when none.
RECURSIVE FunctionFrom(_, _, _)
FunctionFrom(g, name, fn) ==
    IF fn > Len(g.functions) THEN 0
    ELSE IF g.functions[fn].name = name THEN fn
    ELSE FunctionFrom(g, name, fn + 1)

getFunction(g, name) == FunctionFrom(g, name, 1)

\* llvm::Function::Create(..., name, *module): a name already taken in the
\* module's symbol table is made unique with a numbered suffix.
UniqueName(g, name) ==
    IF getFunction(g, name) = 0 THEN name
    ELSE name \o "." \o ToString(Len(g.functions))

CreateFunction(g, name, ret, params) ==
    [g EXCEPT !.functions =
        Append(@, [name |-> UniqueName(g, name), ret |-> ret, params |-> params,
                   layout |-> <<>>])]

IsTerminator(ins) == ins.op \in {"ret", "br", "condbr"}

\* BasicBlock::getTerminator(): the last instruction when it is a terminator.
HasTerminator(g, b) ==
    LET instrs == g.blocks[b].instrs IN
    Len(instrs) > 0 /\ IsTerminator(instrs[Len(instrs)])

\* named_values.find(name): the slot bound to the name, NullValue when none.
named_lookup(g, name) ==
    LET hits == {e \in g.named_values : e.name = name} IN
    IF hits = {} THEN NullValue ELSE (CHOOSE e \in hits : TRUE).slot

\* named_values[name] = slot
named_bind(g, name, slot) ==
    [g EXCEPT !.named_values =
        {e \in @ : e.name # name} \cup {[name |-> name, slot |-> slot]}]

(***************************************************************************)
(* The visitor.  visit(g, node, ub) is node->accept(generator) on state    *)
(* g, with ub the outcome of undefined behaviour; a generator that         *)
(* has aborted does nothing more.                                          *)
(***************************************************************************)
RECURSIVE visit(_, _, _), visit_all(_, _, _, _), visit_arguments(_, _, _, _, _)

\* An arithmetic case of visit(BinaryExpr): the integer or the floating-point
\* instruction is chosen from the types of the lowered operands; the builder
\* folds an operation on two constants into a constant.
Arithmetic(g, int_op, fp_op, left, right, ub) ==
    IF left = NullValue \/ right = NullValue
    THEN IF ub = "abort" THEN Crash(g)
         ELSE [Emit(g, IF ub = "yes" THEN int_op ELSE fp_op, "i32", <<left, right>>, <<>>, "")
                  EXCEPT !.current_value = InstValue(g.next_id, "i32")]
    ELSE LET op == IF isIntegerTy(left.type) /\ isIntegerTy(right.type) THEN int_op ELSE fp_op IN
         IF left.kind = "const" /\ right.kind = "const"
         THEN [g EXCEPT !.current_value = ConstValue(left.type, op)]
         ELSE [Emit(g, op, left.type, <<left, right>>, <<>>, "")
                  EXCEPT !.current_value = InstValue(g.next_id, left.type)]

visit_Literal(g, node) ==
    [g EXCEPT !.current_value =
        CASE node.type = "INT_LITERAL" -> ConstValue("i32", node.value)
          [] node.type = "FLOAT_LITERAL" -> ConstValue("float", node.value)
          [] node.type = "F64" -> ConstValue("double", node.value)
          [] node.type = "TRUE" -> ConstValue("i1", "1")
          [] node.type = "FALSE" -> ConstValue("i1", "0")
          [] OTHER -> ConstValue("i32", "0")]

visit_Identifier(g, node) ==
    LET slot == named_lookup(g, node.name) IN
    IF slot # NullValue
    THEN [Emit(g, "load", slot.allocated, <<slot>>, <<>>, "")
             EXCEPT !.current_value = InstValue(g.next_id, slot.allocated)]
    ELSE [LOG_ERROR(g, "Unknown variable: " \o node.name) EXCEPT !.current_value = NullValue]

visit_BinaryExpr(g, node, ub) ==
    LET gl == visit(g, node.left, ub)
        left == gl.current_value
        gr == visit(gl, node.right, ub)
        right == gr.current_value
    IN  IF gr.crashed THEN gr
        ELSE CASE node.op = "PLUS" -> Arithmetic(gr, "add", "fadd", left, right, ub)
               [] node.op = "MINUS" -> Arithmetic(gr, "sub", "fsub", left, right, ub)
               [] node.op = "STAR" -> Arithmetic(gr, "mul", "fmul", left, right, ub)
               [] node.op = "SLASH" -> Arithmetic(gr, "sdiv", "fdiv", left, right, ub)
               [] OTHER -> [gr EXCEPT !.current_value = NullValue]

visit_UnaryExpr(g, node, ub) ==
    LET go == visit(g, node.operand, ub)
        operand == go.current_value
        Unary(op) ==
            IF operand.kind = "const" THEN [go EXCEPT !.current_value = ConstValue(operand.type, op)]
            ELSE [Emit(go, op, operand.type, <<operand>>, <<>>, "")
                     EXCEPT !.current_value = InstValue(go.next_id, operand.type)]
    IN  IF go.crashed THEN go
        ELSE IF node.op \in {"MINUS", "BANG"} /\ operand = NullValue
        THEN IF ub = "abort" THEN Crash(go)
             ELSE [Emit(go, IF node.op = "BANG" THEN "not" ELSE IF ub = "yes" THEN "neg" ELSE "fneg",
                        "i32", <<operand>>, <<>>, "")
                      EXCEPT !.current_value = InstValue(go.next_id, "i32")]
        ELSE CASE node.op = "MINUS" -> Unary(IF isIntegerTy(operand.type) THEN "neg" ELSE "fneg")
               [] node.op = "BANG" -> Unary("not")
               [] OTHER -> [go EXCEPT !.current_value = NullValue]

\* builder.CreateStore(value, slot): storing a null value is undefined.
Store(g, value, slot, ub) ==
    IF value = NullValue /\ ub = "abort" THEN Crash(g)
    ELSE Emit(g, "store", "void", <<value, slot>>, <<>>, "")

visit_AssignExpr(g, node, ub) ==
    LET gv == visit(g, node.value, ub)
        value == gv.current_value
        slot == named_lookup(gv, node.target.name)
    IN  IF gv.crashed THEN gv
        ELSE IF node.target.kind = "Identifier" THEN
            IF slot # NullValue
            THEN LET gs == Store(gv, value, slot, ub) IN
                 IF gs.crashed THEN gs ELSE [gs EXCEPT !.current_value = value]
            ELSE LOG_ERROR(gv, "Undefined variable: " \o node.target.name)
        ELSE LOG_ERROR(gv, "Invalid assignment target")

\* The argument loop of visit(CallExpr): [g, args].
visit_arguments(g, arguments, i, args, ub) ==
    IF i > Len(arguments) \/ g.crashed THEN [g |-> g, args |-> args]
    ELSE LET ga == visit(g, arguments[i], ub) IN
         visit_arguments(ga, arguments, i + 1, Append(args, ga.current_value), ub)

\* llvm::dyn_cast<llvm::Function>(callee): no lowered expression yields a
\* Function; the cast of a null callee is undefined.
visit_CallExpr(g, node, ub) ==
    LET a == visit_arguments(g, node.arguments, 1, <<>>, ub)
        gc == visit(a.g, node.callee, ub)
        callee == gc.current_value
    IN  IF gc.crashed THEN gc
        ELSE IF callee = NullValue /\ ub = "abort" THEN Crash(gc)
        ELSE IF callee = NullValue /\ ub = "yes"
        THEN [Emit(gc, "call", "i32", a.args, <<>>, GarbageFunction)
                 EXCEPT !.current_value = InstValue(gc.next_id, "i32")]
        ELSE LOG_ERROR(gc, "Call to non-function")

visit_VarDecl(g, node, ub) ==
    IF node.initializer # Null
    THEN LET gi == visit(g, node.initializer, ub)
             init_value == gi.current_value
             type == get_llvm_type(node.type)
             alloca == SlotValue(gi.next_id, type)
             ga == Emit(gi, "alloca", "ptr", <<>>, <<>>, "")
             gs == Store(ga, init_value, alloca, ub)
         IN  IF gi.crashed THEN gi
             ELSE IF gs.crashed THEN gs
             ELSE named_bind(gs, node.name, alloca)
    ELSE g

visit_ReturnStmt(g, node, ub) ==
    IF node.value # Null
    THEN LET gv == visit(g, node.value, ub) IN
         IF gv.crashed THEN gv
         ELSE Emit(gv, "ret", "void", <<gv.current_value>>, <<>>, "")
    ELSE Emit(g, "ret", "void", <<>>, <<>>, "")

\* builder.CreateCondBr(cond, a, b): a null condition is undefined.
CondBr(g, cond, a, b, ub) ==
    IF cond = NullValue /\ ub = "abort" THEN Crash(g)
    ELSE Emit(g, "condbr", "void", <<cond>>, <<a, b>>, "")

Br(g, b) == Emit(g, "br", "void", <<>>, <<b>>, "")

\* visit(IfStmt&) returns on g: the blocks that existed when it was entered,
\* the block that held the cursor when the condition had been lowered, the
\* blocks in which the code of the two branches ended, and the cursor.
IfLeft(g, node, before, cond_end, then_end, else_end) ==
    [g EXCEPT !.if_exits =
        Append(@, [has_else |-> node.else_branch # Null, before |-> before,
                   cond_end |-> cond_end,
                   then_end |-> then_end, else_end |-> else_end, insert |-> g.insert])]

\* A lowering of IfStmt that leaves the builder in the else block.
CursorLeftInElse(g, node, ub) ==
    LET gc == visit(g, node.condition, ub)
        cond_value == gc.current_value
        function == getParent(gc, gc.insert)
        then_block == Len(gc.blocks) + 1
        else_block == Len(gc.blocks) + 2
        merge_block == Len(gc.blocks) + 3
        g1 == CreateBlock(CreateBlock(CreateBlock(gc, "then", function), "else", 0), "ifcont", 0)
        g2 == CondBr(g1, cond_value, then_block, else_block, ub)
        g3 == visit(SetInsertPoint(g2, then_block), node.then_branch, ub)
        g4 == SetInsertPoint(AttachBlock(Br(g3, merge_block), function, else_block), else_block)
        g5 == IF node.else_branch # Null THEN visit(g4, node.else_branch, ub) ELSE g4
        g6 == AttachBlock(Br(g5, merge_block), function, merge_block)
    IN  IF gc.crashed THEN gc
        ELSE IF function = 0 THEN Crash(gc)
        ELSE IF g2.crashed THEN g2
        ELSE IF g3.crashed THEN g3
        ELSE IF g5.crashed THEN g5
        ELSE IfLeft(g6, node, Len(gc.blocks), gc.insert, g3.insert, g5.insert)

visit_IfStmt(g, node, ub) ==
    LET gc == visit(g, node.condition, ub)
        cond_value == gc.current_value
        function == getParent(gc, gc.insert)
        then_block == Len(gc.blocks) + 1
        else_block == Len(gc.blocks) + 2
        merge_block == Len(gc.blocks) + 3
        g1 == CreateBlock(CreateBlock(CreateBlock(gc, "then", function), "else", 0), "ifcont", 0)
        g2 == CondBr(g1, cond_value, then_block, else_block, ub)
        g3 == visit(SetInsertPoint(g2, then_block), node.then_branch, ub)
        g4 == SetInsertPoint(AttachBlock(Br(g3, merge_block), function, else_block), else_block)
        g5 == IF node.else_branch # Null THEN visit(g4, node.else_branch, ub) ELSE g4
        g6 == SetInsertPoint(AttachBlock(Br(g5, merge_block), function, merge_block), merge_block)
    IN  IF gc.crashed THEN gc
        ELSE IF function = 0 THEN Crash(gc)
        ELSE IF g2.crashed THEN g2
        ELSE IF g3.crashed THEN g3
        ELSE IF g5.crashed THEN g5
        ELSE IfLeft(g6, node, Len(gc.blocks), gc.insert, g3.insert, g5.insert)

visit_WhileStmt(g, node, ub) ==
    LET function == getParent(g, g.insert)
        loop_cond == Len(g.blocks) + 1
        loop_body == Len(g.blocks) + 2
        after_loop == Len(g.blocks) + 3
        g1 == CreateBlock(CreateBlock(CreateBlock(g, "loop_cond", function),
                                      "loop_body", function), "after_loop", function)
        g2 == visit(SetInsertPoint(Br(g1, loop_cond), loop_cond), node.condition, ub)
        g3 == CondBr(g2, g2.current_value, loop_body, after_loop, ub)
        g4 == visit(SetInsertPoint(g3, loop_body), node.body, ub)
        g5 == SetInsertPoint(Br(g4, loop_cond), after_loop)
    IN  IF function = 0 THEN Crash(g)
        ELSE IF g2.crashed THEN g2
        ELSE IF g3.crashed THEN g3
        ELSE IF g4.crashed THEN g4
        ELSE g5

\* The parameter loop of visit(FunctionDecl): a slot per argument.
RECURSIVE allocate_parameters(_, _, _)
allocate_parameters(g, params, i) ==
    IF i > Len(params) THEN g
    ELSE LET name == params[i][1]
             type == params[i][2]
             alloca == SlotValue(g.next_id, type)
             ga == Emit(g, "alloca", "ptr", <<>>, <<>>, "")
             gs == Emit(ga, "store", "void", <<ArgValue(name, type), alloca>>, <<>>, "")
         IN  allocate_parameters(named_bind(gs, name, alloca), params, i + 1)

\* A FunctionDecl emitted under the name it was written with.
SourceName(name) == name

\* The name a FunctionDecl is emitted under.
IRName(name) == IF name = "main" THEN "sleaf_main" ELSE name

\* node.body->accept(*this) has returned on g: the function being lowered,
\* its last block and whether that block has a terminator, the block the
\* builder inserts into, and the number the next instruction will get.
BodyLeft(g, node) ==
    IF g.current_function = 0 THEN g
    ELSE LET layout == g.functions[g.current_function].layout IN
         [g EXCEPT !.body_exits =
             Append(@, [name |-> node.name, return_type |-> node.return_type,
                        body |-> node.body,
                        function |-> g.current_function,
                        last |-> layout[Len(layout)],
                        unterminated |-> ~HasTerminator(g, layout[Len(layout)]),
                        insert |-> g.insert, next_id |-> g.next_id])]

\* An epilogue that gives every function an implicit `ret void'.
AlwaysReturns(g, node, func_name, ub) ==
    IF g.current_function = 0 THEN (IF ub = "abort" THEN Crash(g) ELSE g)
    ELSE LET layout == g.functions[g.current_function].layout IN
         IF ~HasTerminator(g, layout[Len(layout)])
         THEN Emit(g, "ret", "void", <<>>, <<>>, "")
         ELSE g

\* "Ensure function has terminator": the last block of the function is
\* looked at, the implicit return goes to the insertion point.
Epilogue(g, node, func_name, ub) ==
    IF g.current_function = 0 THEN (IF ub = "abort" THEN Crash(g) ELSE g)
    ELSE LET layout == g.functions[g.current_function].layout IN
         IF ~HasTerminator(g, layout[Len(layout)])
         THEN IF node.return_type = "VOID" THEN Emit(g, "ret", "void", <<>>, <<>>, "")
              ELSE LOG_ERROR(g, "Function " \o func_name \o " does not return a value")
         ELSE g

\* node.body->accept(*this) is about to be called on g.
BodyEntered(g, node) ==
    [g EXCEPT !.body_entries =
        Append(@, [name |-> node.name, params |-> node.params,
                   named_values |-> g.named_values])]

visit_FunctionDecl(g, node, ub) ==
    LET func_name == IRName(node.name)
        fn == getFunction(g, func_name)
        g1 == [g EXCEPT !.current_function = fn]
        entry == Len(g1.blocks) + 1
        g2 == SetInsertPoint(CreateBlock(g1, "entry", fn), entry)
        g3 == allocate_parameters([g2 EXCEPT !.named_values = {}], g2.functions[fn].params, 1)
        g4 == visit(BodyEntered(g3, node), node.body, ub)
        g5 == Epilogue(BodyLeft(g4, node), node, func_name, ub)
    IN  IF fn = 0 THEN LOG_ERROR(g1, "Function not declared: " \o func_name)
        ELSE IF g4.crashed THEN g4
        ELSE IF g5.crashed THEN g5
        ELSE [g5 EXCEPT !.current_function = 0]

visit_all(g, stmts, i, ub) ==
    IF i > Len(stmts) \/ g.crashed THEN g
    ELSE visit_all(visit(g, stmts[i], ub), stmts, i + 1, ub)

visit(g, node, ub) ==
    IF g.crashed THEN g
    ELSE IF node = Null THEN (IF ub = "abort" THEN Crash(g) ELSE g)
    ELSE CASE node.kind = "BlockStmt" -> visit_all(g, node.statements, 1, ub)
           [] node.kind = "FunctionDecl" -> visit_FunctionDecl(g, node, ub)
           [] node.kind = "VarDecl" -> visit_VarDecl(g, node, ub)
           [] node.kind = "IfStmt" -> visit_IfStmt(g, node, ub)
           [] node.kind = "WhileStmt" -> visit_WhileStmt(g, node, ub)
           [] node.kind = "ReturnStmt" -> visit_ReturnStmt(g, node, ub)
           [] node.kind = "ExpressionStmt" -> visit(g, node.expr, ub)
           [] node.kind = "BinaryExpr" -> visit_BinaryExpr(g, node, ub)
           [] node.kind = "AssignExpr" -> visit_AssignExpr(g, node, ub)
           [] node.kind = "UnaryExpr" -> visit_UnaryExpr(g, node, ub)
           [] node.kind = "CallExpr" -> visit_CallExpr(g, node, ub)
           [] node.kind = "Identifier" -> visit_Identifier(g, node)
           [] node.kind = "Literal" -> visit_Literal(g, node)
           [] node.kind = "GroupingExpr" -> visit(g, node.expression, ub)

\* One iteration of the first loop of generate(): the prototype of stmt.
declare_prototype(g, stmt) ==
    IF stmt # Null /\ stmt.kind = "FunctionDecl"
    THEN LET g1 == IF stmt.name = "main" THEN [g EXCEPT !.has_main_function = TRUE] ELSE g
             params == [i \in 1..Len(stmt.params) |->
                           <<stmt.params[i][1], get_llvm_type(stmt.params[i][2])>>]
         IN  CreateFunction(g1, IRName(stmt.name), get_llvm_type(stmt.return_type), params)
    ELSE g

generate_main_wrapper(g) ==
    LET main_func == Len(g.functions) + 1
        entry == Len(g.blocks) + 1
        g1 == CreateFunction(g, "main", "i32", <<<<"", "i32">>, <<"", "ptr">>>>)
        g2 == SetInsertPoint(CreateBlock(g1, "entry", main_func), entry)
        user_main == getFunction(g2, "sleaf_main")
        ret_val == InstValue(g2.next_id, g2.functions[user_main].ret)
        g3 == Emit(g2, "call", g2.functions[user_main].ret, <<>>, <<>>, "sleaf_main")
    IN  IF user_main = 0 THEN LOG_ERROR(g2, "sleaf_main not found")
        ELSE Emit(g3, "ret", "void", <<ret_val>>, <<>>, "")

(***************************************************************************)
(* Source texts: words of a small vocabulary separated by one space, and   *)
(* a few whole programs.  An opening parenthesis is left to the programs,  *)
(* so that the depth to which expressions nest does not grow with MaxWords.*)
(***************************************************************************)
MaxWords == 3

Words ==
    {<<"f","u","n","c">>, <<"r","e","t","u","r","n">>, <<"f">>, <<"x">>, <<"0">>,
     <<")">>, <<"{">>, <<"}">>, <<";">>, <<"+">>, <<"@">>}

RECURSIVE Join(_)
Join(ws) ==
    IF Len(ws) = 0 THEN <<>>
    ELSE IF Len(ws) = 1 THEN ws[1]
    ELSE ws[1] \o <<" ">> \o Join(Tail(ws))

\* func main() -> i32 { return 0; }
MainProgram ==
    <<"f","u","n","c"," ","m","a","i","n","(",")"," ","-",">"," ","i","3","2"," ",
      "{"," ","r","e","t","u","r","n"," ","0",";"," ","}">>

MainDecl ==
    FunctionDecl("main", <<>>, "I32", BlockStmt(<<ReturnStmt(Literal("INT_LITERAL", "0"))>>))

\* func f() { }
EmptyFunction == <<"f","u","n","c"," ","f","(",")"," ","{"," ","}">>

EmptyFunctionDecl == FunctionDecl("f", <<>>, "VOID", BlockStmt(<<>>))

\* Declarations that violate the grammar: `return );', `x + ;', `func () { }'.
Malformed ==
    {<<"r","e","t","u","r","n"," ",")",";">>,
     <<"x"," ","+"," ",";">>,
     <<"f","u","n","c"," ","(",")"," ","{"," ","}">>}

WellFormed == {[text |-> MainProgram, node |-> MainDecl],
               [text |-> EmptyFunction, node |-> EmptyFunctionDecl]}

MalformedThenWellFormed ==
    {[text |-> m \o <<" ">> \o w.text, node |-> w.node] : m \in Malformed, w \in WellFormed}

\* Groupings and calls, closed and left open: `( 0 ) ;', `( 0 ;', `( ;',
\* `f ( x , 0 ) ;', `f ( ) ;', `f ( ;'.
Parenthesized ==
    {<<"("," ","0"," ",")"," ",";">>, <<"("," ","0"," ",";">>, <<"("," ",";">>,
     <<"f"," ","("," ","x"," ",","," ","0"," ",")"," ",";">>,
     <<"f"," ","("," ",")"," ",";">>, <<"f"," ","("," ",";">>}

\* for (var i: i32 = 0; i < 10; i++) { }
ForProgram ==
    <<"f","o","r"," ","(","v","a","r"," ","i",":"," ","i","3","2"," ","="," ","0",";",
      " ","i"," ","<"," ","1","0",";"," ","i","+","+",")"," ","{"," ","}">>

\* for (;;) { }
ForEverProgram == <<"f","o","r"," ","(",";",";",")"," ","{"," ","}">>

\* Statements that assign to what is no identifier, with the target and the
\* number of tokens of one statement: `0 = x ;', `( x ) += 0 ;', and
\* `0 = x ; 0 = x ;'.
InvalidAssignments ==
    {[text |-> <<"0"," ","="," ","x"," ",";">>,
      lhs |-> Literal("INT_LITERAL", "0"), tokens |-> 4],
     [text |-> <<"("," ","x"," ",")"," ","+","="," ","0"," ",";">>,
      lhs |-> GroupingExpr(Identifier("x")), tokens |-> 6],
     [text |-> <<"0"," ","="," ","x"," ",";"," ","0"," ","="," ","x"," ",";">>,
      lhs |-> Literal("INT_LITERAL", "0"), tokens |-> 4]}

\* The primitive type names, as the source spells them.
TypeSpelling ==
    [text \in DOMAIN type_map |->
        CASE text = "i8" -> <<"i","8">>             [] text = "i16" -> <<"i","1","6">>
          [] text = "i32" -> <<"i","3","2">>        [] text = "i64" -> <<"i","6","4">>
          [] text = "u8" -> <<"u","8">>             [] text = "u16" -> <<"u","1","6">>
          [] text = "u32" -> <<"u","3","2">>        [] text = "u64" -> <<"u","6","4">>
          [] text = "f32" -> <<"f","3","2">>        [] text = "f64" -> <<"f","6","4">>
          [] text = "bool" -> <<"b","o","o","l">>   [] text = "string" -> <<"s","t","r","i","n","g">>
          [] text = "char" -> <<"c","h","a","r">>   [] text = "void" -> <<"v","o","i","d">>]

\* var <type> x;  the order in which var_declaration reads a declaration.
TypedVariable(text) == <<"v","a","r"," ">> \o TypeSpelling[text] \o <<" ","x",";">>

\* One operator of each binary level, and a second one of term: its token
\* type, its level in LevelOperators and its spelling.
BinaryOperators ==
    {[type |-> "PIPE_PIPE", level |-> 1, text |-> <<"|","|">>],
     [type |-> "AMPERSAND_AMP", level |-> 2, text |-> <<"&","&">>],
     [type |-> "EQUAL_EQUAL", level |-> 3, text |-> <<"=","=">>],
     [type |-> "LESS", level |-> 4, text |-> <<"<">>],
     [type |-> "PLUS", level |-> 5, text |-> <<"+">>],
     [type |-> "MINUS", level |-> 5, text |-> <<"-">>],
     [type |-> "STAR", level |-> 6, text |-> <<"*">>]}

\* a <o1> b <o2> c ;
TwoOperators(o1, o2) == Join(<<<<"a">>, o1.text, <<"b">>, o2.text, <<"c">>, <<";">>>>)

\* Expression statements in which operators of the other levels meet.
MixedLevels ==
    {Join(<<<<"a">>, <<"=">>, <<"b">>, <<"=">>, <<"c">>, <<";">>>>),
     Join(<<<<"a">>, <<"=">>, <<"b">>, <<"|","|">>, <<"c">>, <<";">>>>),
     Join(<<<<"a">>, <<"=">>, <<"b">>, <<"?">>, <<"c">>, <<":">>, <<"d">>, <<";">>>>),
     Join(<<<<"a">>, <<"|","|">>, <<"b">>, <<"?">>, <<"c">>, <<":">>, <<"d">>, <<"|","|">>, <<"e">>, <<";">>>>),
     Join(<<<<"-">>, <<"a">>, <<"*">>, <<"b">>, <<";">>>>),
     Join(<<<<"-">>, <<"f">>, <<"(">>, <<")">>, <<";">>>>)}

Programs ==
    {TwoOperators(o1, o2) : o1 \in BinaryOperators, o2 \in BinaryOperators} \cup MixedLevels \cup
    {MainProgram, EmptyFunction} \cup {mw.text : mw \in MalformedThenWellFormed}
        \cup Parenthesized \cup {ForProgram, ForEverProgram}
        \cup {a.text : a \in InvalidAssignments}
        \cup {TypedVariable(text) : text \in DOMAIN type_map}

Sources ==
    {Join(ws) : ws \in UNION {[1..k -> Words] : k \in 0..MaxWords}} \cup Programs

(***************************************************************************)
(* Spec: a Lexer and a Parser are constructed over a source and parse() is *)
(* called, as run_parser and main do (main.cpp:362-364, 451-453).          *)
(***************************************************************************)
\* The process before the driver's tail: no .ll file written, no subprocess
\* started, not exited.
RunIdle == [ll_file |-> FALSE, backend |-> FALSE, exit |-> -1]

Init ==
    /\ pc = "construct"
    /\ source \in Sources
    /\ emit_llvm = FALSE
    /\ parser = ParserNew(Lexer(source))
    /\ statements = <<>>
    /\ gen = CodeGenerator
    /\ run = RunIdle
    /\ lexer = Lexer(source)
    /\ scanned = NoToken
    /\ token_count = 0

\* sleaf::Parser parser(lexer);
Construct ==
    /\ pc = "construct"
    /\ parser' = advance(parser)
    /\ pc' = "parse"
    /\ UNCHANGED <<lexvars, source, emit_llvm, statements, gen, run>>

\* parse() has ended with r.
ParseEnds(r) ==
    /\ parser' = r.p
    /\ statements' = r.node
    /\ pc' = IF r.st = "ok" THEN "parsed" ELSE "hung"

\* auto statements = parser.parse();
Parse ==
    /\ pc = "parse"
    /\ \E r \in {parse(parser)} : ParseEnds(r)
    /\ UNCHANGED <<lexvars, source, emit_llvm, gen, run>>

Next == Construct \/ Parse

Spec == Init /\ [][Next]_vars

(***************************************************************************)
(* SpecParse: the productions at work.  The parser starts with its         *)
(* lookahead loaded -- the current slot holds the first token of the       *)
(* source, which is what the constructor's advance() is there for          *)
(* (parser.cpp:50, "Initialize current token") but, as Construct shows,    *)
(* does not do -- and parse() runs one iteration of its loop per step.     *)
(***************************************************************************)
LoadedParser(L) == PullToken(ParserNew(L))

InitParse ==
    /\ pc = "parse"
    /\ source \in Sources
    /\ emit_llvm = FALSE
    /\ parser = LoadedParser(Lexer(source))
    /\ statements = <<>>
    /\ gen = CodeGenerator
    /\ run = RunIdle
    /\ lexer = Lexer(source)
    /\ scanned = NoToken
    /\ token_count = 0

\* declaration() has ended with r: statements.push_back; a call that left
\* the parser as it found it is repeated for ever.
DeclarationEnds(r) ==
    /\ parser' = r.p
    /\ statements' = IF r.st = "ok" THEN Append(statements, r.node) ELSE statements
    /\ pc' = IF r.st = "ok" /\ ~NoProgress(parser, r.p) THEN "parse" ELSE "hung"

\* One iteration of the loop of parse(): statements.push_back(declaration()).
ParseDeclaration ==
    /\ pc = "parse"
    /\ ~is_at_end(parser)
    /\ \E r \in {declaration(parser)} : DeclarationEnds(r)
    /\ UNCHANGED <<lexvars, source, emit_llvm, gen, run>>

\* The loop of parse() ends and parse() returns the statements.
ParseReturn ==
    /\ pc = "parse"
    /\ is_at_end(parser)
    /\ pc' = "parsed"
    /\ UNCHANGED <<lexvars, source, emit_llvm, parser, statements, gen, run>>

NextParse == ParseDeclaration \/ ParseReturn

SpecParse == InitParse /\ [][NextParse]_vars

(***************************************************************************)
(* SpecGen: generate() on a statement list, one loop iteration per step,   *)
(* followed by the tail of main (main.cpp:459-480).  The statement lists   *)
(* are drawn from a bounded set of syntax trees.                           *)
(***************************************************************************)
MaxBodyStmts == 2

Zero == Literal("INT_LITERAL", "0")

\* A function the subject lists declare next to their subject: func g() -> i32 { return 0; }
Callee == FunctionDecl("g", <<>>, "I32", BlockStmt(<<ReturnStmt(Zero)>>))

Conditions == {Literal("TRUE", "true"), Identifier("x")}

Calls == {CallExpr(Identifier("g"), <<>>),
          CallExpr(Identifier("g"), <<Identifier("x"), Zero>>),
          CallExpr(Identifier("x"), <<>>)}

ReturnInBranch == BlockStmt(<<ReturnStmt(Zero)>>)

\* while (true) { if (true) { } }
LoopOverBranch ==
    WhileStmt(Literal("TRUE", "true"),
              BlockStmt(<<IfStmt(Literal("TRUE", "true"), BlockStmt(<<>>), Null)>>))

BodyStatements ==
    {ReturnStmt(Zero), ReturnStmt(Null),
     VarDecl("I32", "x", Zero, FALSE),
     ExpressionStmt(AssignExpr("EQUAL", Identifier("x"), Zero)),
     WhileStmt(Literal("TRUE", "true"), BlockStmt(<<ReturnStmt(Null)>>)),
     LoopOverBranch}
    \cup {ExpressionStmt(c) : c \in Calls}
    \cup {IfStmt(c, ReturnInBranch, Null) : c \in Conditions}
    \cup {IfStmt(Literal("TRUE", "true"), ReturnInBranch, ReturnInBranch)}

Bodies == {BlockStmt(b) : b \in UNION {[1..k -> BodyStatements] : k \in 0..MaxBodyStmts}}

Signatures ==
    {[name |-> "main", params |-> <<>>, return_type |-> "I32"],
     [name |-> "main", params |-> <<>>, return_type |-> "VOID"],
     [name |-> "f", params |-> <<>>, return_type |-> "VOID"],
     [name |-> "f", params |-> <<<<"x", "I32">>>>, return_type |-> "I32"]}

Subjects == {FunctionDecl(sg.name, sg.params, sg.return_type, b) : sg \in Signatures, b \in Bodies}

\* func f(x: i32) -> i32 { return 0; }  func f(y: i32) -> i32 { return 0; }
Redefinition ==
    <<FunctionDecl("f", <<<<"x", "I32">>>>, "I32", BlockStmt(<<ReturnStmt(Zero)>>)),
      FunctionDecl("f", <<<<"y", "I32">>>>, "I32", BlockStmt(<<ReturnStmt(Zero)>>))>>

\* func main() -> i32 { return 0; }  func sleaf_main() -> i32 { return 0; }
NameTaken ==
    <<FunctionDecl("main", <<>>, "I32", BlockStmt(<<ReturnStmt(Zero)>>)),
      FunctionDecl("sleaf_main", <<>>, "I32", BlockStmt(<<ReturnStmt(Zero)>>))>>

StatementLists ==
    {<<>>, <<Callee>>, <<ExpressionStmt(Zero)>>, Redefinition, NameTaken}
    \cup {<<f>> : f \in Subjects}
    \cup {<<f, Callee>> : f \in Subjects}
    \cup {<<Callee, f>> : f \in Subjects}

InitGen ==
    /\ pc = "generate"
    /\ source = <<>>
    /\ emit_llvm \in BOOLEAN
    /\ parser = ParserCtor(Lexer(source))
    /\ statements \in StatementLists
    /\ gen = CodeGenerator
    /\ run = RunIdle
    /\ lexer = Lexer(source)
    /\ scanned = NoToken
    /\ token_count = 0

\* The first loop of generate() left after its first iteration.
FirstPrototypeDeclared(g) == g.proto_index > 1 \/ Len(statements) = 0

\* The first loop of generate() has run over the whole list.
PrepassDone(g) == g.proto_index > Len(statements)

\* One iteration of the first loop of generate().
DeclarePrototype ==
    /\ pc = "generate"
    /\ ~PrepassDone(gen)
    /\ gen' = [declare_prototype(gen, statements[gen.proto_index])
                  EXCEPT !.proto_index = @ + 1]
    /\ UNCHANGED <<pc, lexvars, source, emit_llvm, parser, statements, run>>

\* One iteration of the second loop of generate(): stmt->accept.  A visit
\* that aborts ends the process.
VisitStatement ==
    /\ pc = "generate"
    /\ PrepassDone(gen)
    /\ gen.visit_index <= Len(statements)
    /\ \E ub \in UBOutcomes :
        LET g == visit(gen, statements[gen.visit_index], ub) IN
        /\ gen' = [g EXCEPT !.visit_index = @ + 1]
        /\ pc' = IF g.crashed THEN "exit" ELSE "generate"
        /\ run' = IF g.crashed THEN [run EXCEPT !.exit = 134] ELSE run
    /\ UNCHANGED <<lexvars, source, emit_llvm, parser, statements>>

\* The end of generate(): the wrapper when a main was seen, and the return.
GenerateReturn ==
    /\ pc = "generate"
    /\ PrepassDone(gen)
    /\ gen.visit_index > Len(statements)
    /\ gen' = IF gen.has_main_function THEN generate_main_wrapper(gen) ELSE gen
    /\ pc' = "write"
    /\ UNCHANGED <<lexvars, source, emit_llvm, parser, statements, run>>

\* codegen.write_to_file(ll_file), which returns silently when the file
\* cannot be opened; with --emit-llvm main then returns 0.
WriteToFile ==
    /\ pc = "write"
    /\ \E opened \in BOOLEAN :
        run' = [run EXCEPT !.ll_file = opened,
                           !.exit = IF emit_llvm THEN 0 ELSE @]
    /\ pc' = IF emit_llvm THEN "exit" ELSE "compile"
    /\ UNCHANGED <<lexvars, source, emit_llvm, parser, statements, gen>>

\* compile_ir(output_base) and the return of main: opt and clang++ are run
\* on the .ll file when it exists, and either may fail.
CompileIr ==
    /\ pc = "compile"
    /\ \E tools_succeed \in BOOLEAN :
        run' = [run EXCEPT !.backend = run.ll_file,
                           !.exit = IF run.ll_file /\ tools_succeed THEN 0 ELSE 1]
    /\ pc' = "exit"
    /\ UNCHANGED <<lexvars, source, emit_llvm, parser, statements, gen>>

NextGen == DeclarePrototype \/ VisitStatement \/ GenerateReturn \/ WriteToFile \/ CompileIr

SpecGen == InitGen /\ [][NextGen]_vars

(***************************************************************************)
(* SpecLex: a Lexer is constructed over a source and scan_token is called  *)
(* on it again and again, as the loop of run_lexer does (main.cpp:178-183) *)
(* and as a caller that goes on after END_OF_FILE may.  The sources are    *)
(* all the texts of at most MaxChars characters of LexChars, and texts     *)
(* with longer literals.                                                   *)
(***************************************************************************)
MaxChars == 3

\* Calls of scan_token made on one lexer; more than any source has tokens.
MaxScans == MaxChars + 3

LexChars == {"'", "\\", "\"", "\n", " ", "/", "0", ".", "x", "e", "i", "f"}

\* 0x1A  0b101  1.5e-3  1.2.3  0x1.  1e  1_0  ifx  i32  'ab'  '\n'  "a<newline>b"
\* /* x */ x   and   x // x
LexExamples ==
    {<<"0","x","1","A">>, <<"0","b","1","0","1">>, <<"1",".","5","e","-","3">>,
     <<"1",".","2",".","3">>, <<"0","x","1",".">>, <<"1","e">>, <<"1","_","0">>,
     <<"i","f","x">>, <<"i","3","2">>,
     <<"'","a","b","'">>, <<"'","\\","n","'">>,
     <<"\"","a","\n","b","\"">>,
     <<"/","*"," ","x"," ","*","/"," ","x">>, <<"x"," ","/","/"," ","x">>}

LexSources ==
    UNION {[1..k -> LexChars] : k \in 0..MaxChars} \cup LexExamples

InitLex ==
    /\ pc = "lexer"
    /\ source \in LexSources
    /\ emit_llvm = FALSE
    /\ parser = ParserNew(Lexer(source))
    /\ statements = <<>>
    /\ gen = CodeGenerator
    /\ run = RunIdle
    /\ lexer = Lexer(source)
    /\ scanned = NoToken
    /\ token_count = 0

\* while (true): the loop of the caller goes round once more.
NextCall ==
    /\ pc = "lexer"
    /\ token_count < MaxScans
    /\ token_count' = token_count + 1

\* A scan_token that starts over from the first character of the source once
\* it has returned END_OF_FILE.
ScanAndRewind ==
    /\ NextCall
    /\ \E r \in {scan_token(IF scanned.type = "END_OF_FILE" THEN Lexer(source) ELSE lexer)} :
           lexer' = r.lex /\ scanned' = r.tok
    /\ UNCHANGED <<pc, source, emit_llvm, parser, statements, gen, run>>

\* sleaf::Token token = lexer.scan_token();
ScanToken ==
    /\ NextCall
    /\ \E r \in {scan_token(lexer)} : lexer' = r.lex /\ scanned' = r.tok
    /\ UNCHANGED <<pc, source, emit_llvm, parser, statements, gen, run>>

NextLex == ScanToken

SpecLex == InitLex /\ [][NextLex]_vars

\* The loop of the caller does not stop between two calls: its next round is
\* taken as long as it is there to take.  Every step of NextLex is such a
\* round, and scan_token is defined on every lexer, so this asks no more than
\* that ScanToken goes on.
SpecLexFair == SpecLex /\ WF_token_count(NextCall)

(***************************************************************************)
(* SpecDump: run_lexer (main.cpp:172-199), the token dump of the --lexer   *)
(* option, one round of its loop per step.  Here run is what run_lexer has *)
(* written: the token lines on cout, the lines on cerr, and the limit      *)
(* notice.                                                                 *)
(***************************************************************************)
MAX_TOKEN_COUNT == 500

\* n semicolons: a source of n tokens and END_OF_FILE.
Semicolons(n) == [i \in 1..n |-> ";"]

DumpSources ==
    {Semicolons(n) : n \in {0, 1, MAX_TOKEN_COUNT - 1, MAX_TOKEN_COUNT, MAX_TOKEN_COUNT + 1,
                            MAX_TOKEN_COUNT + 2}}
        \cup {<<"x", " ", "@", " ", "0">>}

DumpIdle == [lines |-> 0, errors |-> 0, notice |-> FALSE, exit |-> -1]

InitDump ==
    /\ pc = "run_lexer"
    /\ source \in DumpSources
    /\ emit_llvm = FALSE
    /\ parser = ParserNew(Lexer(source))
    /\ statements = <<>>
    /\ gen = CodeGenerator
    /\ run = DumpIdle
    /\ lexer = Lexer(source)
    /\ scanned = NoToken
    /\ token_count = 0

\* if (source.empty()) return 1;  sleaf::Lexer lexer(source);
DumpStart ==
    /\ pc = "run_lexer"
    /\ pc' = IF Len(source) = 0 THEN "exit" ELSE "dump"
    /\ run' = IF Len(source) = 0 THEN [run EXCEPT !.exit = 1] ELSE run
    /\ UNCHANGED <<lexvars, source, emit_llvm, parser, statements, gen>>

\* What a round of the loop does with the token it has scanned.
DumpRound(r) ==
    /\ lexer' = r.lex
    /\ scanned' = r.tok
    /\ token_count' = IF r.tok.type = "END_OF_FILE" THEN token_count ELSE token_count + 1
    /\ run' = [run EXCEPT
                  !.lines = @ + 1,
                  !.errors = IF r.tok.type = "ERROR" THEN @ + 1 ELSE @,
                  !.notice = r.tok.type # "END_OF_FILE" /\ token_count + 1 > MAX_TOKEN_COUNT,
                  !.exit = IF r.tok.type = "END_OF_FILE" \/ token_count + 1 > MAX_TOKEN_COUNT
                           THEN 0 ELSE @]
    /\ pc' = IF r.tok.type = "END_OF_FILE" \/ token_count + 1 > MAX_TOKEN_COUNT
             THEN "exit" ELSE "dump"

\* One round of while (true).
DumpToken ==
    /\ pc = "dump"
    /\ \E r \in {scan_token(lexer)} : DumpRound(r)
    /\ UNCHANGED <<source, emit_llvm, parser, statements, gen>>

NextDump == DumpStart \/ DumpToken

SpecDump == InitDump /\ [][NextDump]_vars

(***************************************************************************)
(* SpecType: get_type() (ast.cpp) called on a binary expression.  The      *)
(* operands are drawn from the expressions whose own type is decided       *)
(* without a symbol table; run holds the TokenType returned.               *)
(***************************************************************************)
\* Expr::get_type() of each expression node.
RECURSIVE get_type(_)
get_type(node) ==
    CASE node.kind = "BinaryExpr" ->
            IF \/ get_type(node.left) = "F32" \/ get_type(node.right) = "F32"
               \/ get_type(node.left) = "F64" \/ get_type(node.right) = "F64"
            THEN "F64"
            ELSE "I32"
      [] node.kind = "AssignExpr" -> get_type(node.target)
      [] node.kind = "UnaryExpr" -> get_type(node.operand)
      [] node.kind = "CallExpr" -> "I32"
      [] node.kind = "Identifier" -> "I32"
      [] node.kind = "Literal" -> node.type
      [] node.kind = "GroupingExpr" -> get_type(node.expression)

\* The token types a Literal is constructed with.
LiteralTypes == {"INT_LITERAL", "FLOAT_LITERAL", "TRUE", "I32", "I64", "F32", "F64"}

Operands ==
    {Literal(t, "1") : t \in LiteralTypes}
        \cup {GroupingExpr(Literal(t, "1")) : t \in LiteralTypes}
        \cup {UnaryExpr("MINUS", Literal(t, "1")) : t \in LiteralTypes}
        \cup {Identifier("x"), CallExpr(Identifier("g"), <<>>),
              BinaryExpr("STAR", Literal("F32", "1"), Identifier("x")),
              BinaryExpr("STAR", Identifier("x"), Identifier("x"))}

InitType ==
    /\ pc = "get_type"
    /\ source = <<>>
    /\ emit_llvm = FALSE
    /\ parser = ParserNew(Lexer(source))
    /\ statements \in {<<ExpressionStmt(BinaryExpr("PLUS", l, r))>> : l \in Operands, r \in Operands}
    /\ gen = CodeGenerator
    /\ run = [type |-> "NONE"]
    /\ lexer = Lexer(source)
    /\ scanned = NoToken
    /\ token_count = 0

\* statements[1]->expr->get_type()
GetType ==
    /\ pc = "get_type"
    /\ run' = [type |-> get_type(statements[1].expr)]
    /\ pc' = "typed"
    /\ UNCHANGED <<lexvars, source, emit_llvm, parser, statements, gen>>

NextType == GetType

SpecType == InitType /\ [][NextType]_vars

(***************************************************************************)
(* Properties of the parser.                                               *)
(***************************************************************************)

C2_MainParses ==
    (pc = "parsed" /\ source = MainProgram)
        => (statements = <<MainDecl>> /\ ~had_error(parser) /\ parser.cerr = <<>>)

\* C3: for a malformed declaration followed by a well-formed one, parse()
\* returns exactly the well-formed declaration, with no null entry for the
\* one that failed, and had_error() is true.
C3_OnlyWellFormedKept ==
    \A mw \in MalformedThenWellFormed :
        (pc = "parsed" /\ source = mw.text)
            => (statements = <<mw.node>> /\ had_error(parser))

\* The previous token is `;', or the current token is a recovery keyword or
\* END_OF_FILE.
AtSynchronizationPoint(p) ==
    \/ p.m_previous.type = "SEMICOLON"
    \/ p.m_current.type \in RecoveryTokens
    \/ is_at_end(p)

\* declaration() has caught a failure in this step: parse() stored its null.
CaughtFailure ==
    /\ pc = "parse"
    /\ Len(statements') > Len(statements)
    /\ statements'[Len(statements')] = Null

LexicalMessages ==
    {"Invalid numeric format", "Unterminated string", "Unterminated character",
     "Unterminated character after escape", "Character too long"}
    \cup {"Unexpected character: " \o c : c \in {"@"} \cup NonAscii}

\* The diagnostics of grammar violations written so far.
GrammarErrors(p) == SelectSeq(p.cerr, LAMBDA e : e.message \notin LexicalMessages)

\* declaration() has returned a node in this step.
ReturnedNode ==
    /\ pc = "parse"
    /\ Len(statements') > Len(statements)
    /\ statements'[Len(statements')] # Null

EmittedBlocks(g) == {b \in 1..Len(g.blocks) : getParent(g, b) # 0}

\* Block b holds exactly one terminator, as its last instruction.
OneTerminatorLast(g, b) ==
    LET instrs == g.blocks[b].instrs IN
    /\ Len(instrs) > 0
    /\ \A i \in 1..Len(instrs) : IsTerminator(instrs[i]) <=> i = Len(instrs)

\* C4: after generate() on a list lowered without a diagnostic, every basic
\* block of every emitted function holds exactly one terminator and that
\* terminator is the block's last instruction.
C4_BlocksWellTerminated ==
    (pc = "write" /\ gen.log = <<>>)
        => \A b \in EmittedBlocks(gen) : OneTerminatorLast(gen, b)

\* The call instructions of the module whose callee is the function name.
CallsTo(g, name) ==
    {<<b, i>> \in (1..Len(g.blocks)) \X (1..g.next_id) :
        /\ i <= Len(g.blocks[b].instrs)
        /\ g.blocks[b].instrs[i].op = "call"
        /\ g.blocks[b].instrs[i].callee = name}

\* func f() { g(); } next to the declaration of g, before or after it.
Caller ==
    FunctionDecl("f", <<>>, "VOID",
                 BlockStmt(<<ExpressionStmt(CallExpr(Identifier("g"), <<>>))>>))

CallPrograms == {<<Caller, Callee>>, <<Callee, Caller>>}

\* C5: lowering a call whose callee names a function declared by the
\* pre-pass, defined earlier or later, logs no error and emits one call
\* instruction to that function.
C5_CallToDeclaredFunction ==
    (pc = "write" /\ statements \in CallPrograms)
        => (gen.log = <<>> /\ Cardinality(CallsTo(gen, "g")) = 1)

TopLevelDeclared(g) ==
    \A i \in 1..Len(statements) :
        statements[i].kind = "FunctionDecl"
            => getFunction(g, IRName(statements[i].name)) # 0

\* C7: in generate(), a step that lowers a statement of the list is taken
\* only when every top-level FunctionDecl is declared in the module.
C7_PrototypesBeforeBodies ==
    [][(gen'.visit_index > gen.visit_index \/ Len(gen'.blocks) > Len(gen.blocks))
          => TopLevelDeclared(gen)]_vars

\* A body has been lowered in a list that declares another function after it.
C7_Witness ==
    /\ Len(statements) = 2
    /\ statements[1].kind = "FunctionDecl"
    /\ statements[1].name # statements[2].name
    /\ statements[2] = Callee
    /\ gen.visit_index = 2
    /\ gen.blocks # <<>>
    /\ ~gen.crashed

HasUserMain ==
    \E i \in 1..Len(statements) :
        statements[i].kind = "FunctionDecl" /\ statements[i].name = "main"

UserMain == statements[CHOOSE i \in 1..Len(statements) :
                          statements[i].kind = "FunctionDecl" /\ statements[i].name = "main"]

\* Function fn of the module is the native entry point: (i32, ptr) -> i32,
\* one block, which calls sleaf_main and returns the result of the call.
IsWrapper(g, fn) ==
    LET f == g.functions[fn] IN
    /\ f.ret = "i32"
    /\ Len(f.params) = 2
    /\ f.params[1][2] = "i32"
    /\ f.params[2][2] = "ptr"
    /\ Len(f.layout) = 1
    /\ LET instrs == g.blocks[f.layout[1]].instrs IN
        /\ Len(instrs) = 2
        /\ instrs[1].op = "call"
        /\ instrs[1].callee = "sleaf_main"
        /\ instrs[1].operands = <<>>
        /\ instrs[2].op = "ret"
        /\ Len(instrs[2].operands) = 1
        /\ instrs[2].operands[1].kind = "inst"
        /\ instrs[2].operands[1].id = instrs[1].id

CharLiteralKind(src, q) ==
    IF q + 2 > Len(src) THEN "ERROR"
    ELSE IF src[q + 2] = "'" THEN "ERROR"
    ELSE IF src[q + 2] = "\\"
         THEN IF q + 4 <= Len(src) /\ src[q + 4] = "'" THEN "CHAR_LITERAL" ELSE "ERROR"
         ELSE IF q + 3 <= Len(src) /\ src[q + 3] = "'" THEN "CHAR_LITERAL" ELSE "ERROR"

\* C11: scan_token called at the opening quote of a character literal returns
\* CHAR_LITERAL exactly when one unit (a single character, or a backslash and
\* one character) stands between the quotes; with two or more units, or when
\* the input ends before the closing quote, it returns ERROR.
C11_CharLiteral ==
    [][peek(lexer) = "'"
          => scanned'.type = CharLiteralKind(lexer.m_SOURCE, lexer.m_CURRENT)]_vars


\* The offset of the first character at or after offset i of src that is
\* neither white space nor part of a comment (Len(src) when there is none).
RECURSIVE PastLineComment(_, _)
PastLineComment(src, i) ==
    IF i >= Len(src) \/ src[i + 1] = "\n" THEN i ELSE PastLineComment(src, i + 1)

RECURSIVE PastBlockComment(_, _)
PastBlockComment(src, i) ==
    IF i >= Len(src) THEN i
    ELSE IF i + 1 < Len(src) /\ src[i + 1] = "*" /\ src[i + 2] = "/" THEN i + 2
    ELSE PastBlockComment(src, i + 1)

RECURSIVE TokenStart(_, _)
TokenStart(src, i) ==
    IF i >= Len(src) THEN i
    ELSE IF src[i + 1] \in {" ", "\r", "\t", "\n"} THEN TokenStart(src, i + 1)
    ELSE IF i + 1 < Len(src) /\ src[i + 1] = "/" /\ src[i + 2] = "/"
         THEN TokenStart(src, PastLineComment(src, i + 2))
    ELSE IF i + 1 < Len(src) /\ src[i + 1] = "/" /\ src[i + 2] = "*"
         THEN TokenStart(src, PastBlockComment(src, i + 2))
    ELSE i

\* The characters of src from offset i up to, not including, offset j.
RECURSIVE Text(_, _, _)
Text(src, i, j) == IF i >= j THEN "" ELSE src[i + 1] \o Text(src, i + 1, j)

\* C12: the lexeme of every token other than ERROR, END_OF_FILE included, is
\* exactly the text the call consumed for the token -- from the first
\* character past the white space and the comments skipped, up to the cursor
\* the call leaves -- which is the empty text for END_OF_FILE.
C12_LexemeIsSpan ==
    [][scanned'.type # "ERROR"
          => scanned'.lexeme = Text(lexer.m_SOURCE,
                                    TokenStart(lexer.m_SOURCE, lexer.m_CURRENT),
                                    lexer'.m_CURRENT)]_vars


\* The 1-based column, on its line, of the character at offset i of src.
RECURSIVE ColumnOf(_, _)
ColumnOf(src, i) ==
    IF i = 0 \/ src[i] = "\n" THEN 1 ELSE 1 + ColumnOf(src, i - 1)

\* C13: every token carries a line of at least 1 and a column of at least 1,
\* and the column of a token other than ERROR is the 1-based column of the
\* first character of the token on its line, also when the text of the token
\* (a string literal) holds a newline.
C13_LineAndColumn ==
    [][/\ scanned'.line >= 1
       /\ scanned'.column >= 1
       /\ scanned'.type \notin {"ERROR", "END_OF_FILE"}
             => scanned'.column =
                    ColumnOf(lexer.m_SOURCE, TokenStart(lexer.m_SOURCE, lexer.m_CURRENT))]_vars


\* C14: once scan_token has returned END_OF_FILE, every later call returns
\* END_OF_FILE again and leaves the cursor, the line and the column as they
\* were.
C14_EndOfFileStays ==
    [][scanned.type = "END_OF_FILE"
          => /\ scanned'.type = "END_OF_FILE"
             /\ lexer'.m_CURRENT = lexer.m_CURRENT
             /\ lexer'.m_LINE = lexer.m_LINE
             /\ lexer'.m_COLUMN = lexer.m_COLUMN]_vars

\* scan_token has been called on a source of MaxChars characters that holds a
\* token, two times at least after the call that returned END_OF_FILE first.
C14_Witness ==
    /\ scanned.type = "END_OF_FILE"
    /\ Len(source) = MaxChars
    /\ lexer.m_START < Len(source)
    /\ token_count = MaxScans


\* C15: calling scan_token again and again never fails and eventually
\* returns END_OF_FILE; every token other than END_OF_FILE, ERROR included,
\* moves the cursor forward by at least one character, and the cursor never
\* moves backward nor past the end of the source.
C15_ScanningEnds ==
    /\ [][/\ scanned'.type # "END_OF_FILE" => lexer'.m_CURRENT > lexer.m_CURRENT
          /\ lexer'.m_CURRENT >= lexer.m_CURRENT
          /\ lexer'.m_CURRENT <= Len(lexer'.m_SOURCE)]_vars
    /\ <>(scanned.type = "END_OF_FILE")

\* Every character of a source of MaxChars characters was a token of its own,
\* an ERROR among them, and END_OF_FILE came with the call after the last.
C15_Witness ==
    /\ scanned.type = "END_OF_FILE"
    /\ Len(source) = MaxChars
    /\ token_count = MaxChars + 1
    /\ lexer.m_CURRENT = Len(source)
    /\ \E i \in 1..Len(source) : source[i] = "\\"


\* The digits of a numeric literal written in base `base'.
BaseDigits(base) ==
    CASE base = "hex" -> Digits \cup {"a","b","c","d","e","f","A","B","C","D","E","F"}
      [] base = "bin" -> {"0", "1"}
      [] OTHER -> Digits

\* The base the literal at offset i of src is written in, by its prefix.
BaseAt(src, i) ==
    IF i + 1 < Len(src) /\ src[i + 1] = "0" /\ src[i + 2] = "x" THEN "hex"
    ELSE IF i + 1 < Len(src) /\ src[i + 1] = "0" /\ src[i + 2] = "b" THEN "bin"
    ELSE "dec"

\* The end of the run of digits, underscores and dots that starts at offset j.
RECURSIVE MantissaEnd(_, _, _)
MantissaEnd(src, j, base) ==
    IF j < Len(src) /\ src[j + 1] \in BaseDigits(base) \cup {"_", "."}
    THEN MantissaEnd(src, j + 1, base) ELSE j

\* The number of dots of src from offset i up to, not including, offset j.
Dots(src, i, j) == Cardinality({k \in (i + 1)..j : src[k] = "."})

\* [eE][+-]?digits stands at offset j of src.
ExponentAt(src, j) ==
    /\ j < Len(src) /\ src[j + 1] \in {"e", "E"}
    /\ \E k \in {IF j + 1 < Len(src) /\ src[j + 2] \in {"+", "-"} THEN j + 2 ELSE j + 1} :
          k < Len(src) /\ src[k + 1] \in Digits

\* The kind of the numeric literal that starts at offset i of src.
NumberKind(src, i) ==
    LET base == BaseAt(src, i)
        from == IF base = "dec" THEN i ELSE i + 2
        to   == MantissaEnd(src, from, base)
        dots == Dots(src, from, to)
    IN  IF (base # "dec" /\ dots >= 1) \/ dots >= 2 THEN "ERROR"
        ELSE IF base = "dec" /\ (dots = 1 \/ ExponentAt(src, to)) THEN "FLOAT_LITERAL"
        ELSE "INT_LITERAL"

\* C16: scan_token called at the first digit of a numeric literal returns
\* ERROR when a `.' follows a 0x or 0b prefix or when a second `.' appears;
\* otherwise FLOAT_LITERAL when the literal holds a `.' or, outside hex and
\* binary, an exponent suffix [eE][+-]?digits; otherwise INT_LITERAL.
C16_NumberKinds ==
    [][peek(lexer) \in Digits
          => scanned'.type = NumberKind(lexer.m_SOURCE, lexer.m_CURRENT)]_vars


\* The end of the run of letters, digits, underscores and bytes above 0x7F
\* that starts at offset j of src.
RECURSIVE RunEnd(_, _)
RunEnd(src, j) ==
    IF j < Len(src) /\ src[j + 1] \in Lower \cup Upper \cup Digits \cup NonAscii \cup {"_"}
    THEN RunEnd(src, j + 1) ELSE j

\* C17: scan_token called at the first character of an identifier run takes
\* the whole run, up to the first character that is not a letter, a digit or
\* an underscore, as one token; its kind is the keyword's exactly when the
\* whole run is an entry of the keyword table, and IDENTIFIER otherwise.
C17_MaximalRun ==
    [][is_alpha(peek(lexer))
          => \E text \in {Text(lexer.m_SOURCE, lexer.m_CURRENT,
                              RunEnd(lexer.m_SOURCE, lexer.m_CURRENT))} :
                /\ lexer'.m_CURRENT = RunEnd(lexer.m_SOURCE, lexer.m_CURRENT)
                /\ scanned'.lexeme = text
                /\ text \in DOMAIN keywords => scanned'.type = keywords[text]
                /\ text \notin DOMAIN keywords => scanned'.type = "IDENTIFIER"]_vars

\* The run `ifx', which starts with a keyword, was scanned as one identifier,
\* and so was `i32' as the keyword it is.
C17_Witness ==
    \/ source = <<"i","f","x">> /\ scanned.type = "IDENTIFIER" /\ scanned.lexeme = "ifx"
    \/ source = <<"i","3","2">> /\ scanned.type = "I32" /\ scanned.lexeme = "i32"


(***************************************************************************)
(* Properties of the statements and expressions parsed.                    *)
(***************************************************************************)

\* Block[VarDecl i: i32 = 0, While(i < 10, Block[Block[], ExpressionStmt(incr)])]
IsForDesugaring(node) ==
    /\ node.kind = "BlockStmt"
    /\ Len(node.statements) = 2
    /\ node.statements[1] = VarDecl("I32", "i", Literal("INT_LITERAL", "0"), FALSE)
    /\ node.statements[2].kind = "WhileStmt"
    /\ node.statements[2].condition =
           BinaryExpr("LESS", Identifier("i"), Literal("INT_LITERAL", "10"))
    /\ node.statements[2].body.kind = "BlockStmt"
    /\ Len(node.statements[2].body.statements) = 2
    /\ node.statements[2].body.statements[1] = BlockStmt(<<>>)
    /\ node.statements[2].body.statements[2].kind = "ExpressionStmt"

TargetAlone(a) ==
    /\ pc' = "parse"
    /\ statements' = Append(statements, ExpressionStmt(a.lhs))
    /\ parser'.pulls = parser.pulls + a.tokens
    /\ parser'.m_previous.type = "SEMICOLON"
    /\ had_error(parser')

\* The step has put "Invalid assignment target" on cerr.
TargetReported ==
    /\ Len(parser'.cerr) = Len(parser.cerr) + 1
    /\ parser'.cerr[Len(parser'.cerr)].message = "Invalid assignment target"

InvalidTargetUnwrapped ==
    [][\A a \in InvalidAssignments :
          (source = a.text /\ pc = "parse" /\ ~is_at_end(parser))
              => /\ TargetAlone(a)
                 /\ ~parser.m_panic_mode => TargetReported
                 /\ parser.m_panic_mode => parser'.cerr = parser.cerr]_vars

(***************************************************************************)
(* Properties of the symbol table.                                         *)
(***************************************************************************)

\* named_values as the body of the declaration of e found it: one binding for
\* each parameter of the declaration and no other, each to a stack slot of
\* its own.
OwnParameters(e) ==
    /\ {b.name : b \in e.named_values} = {e.params[i][1] : i \in 1..Len(e.params)}
    /\ Cardinality(e.named_values) = Len(e.params)
    /\ \A b \in e.named_values : b.slot.kind = "slot"
    /\ \A b, c \in e.named_values : b.slot.id = c.slot.id => b = c

\* C20: at the moment the body of a function starts to be lowered,
\* named_values holds exactly the parameters of that function, each bound to
\* a stack slot of its own: no binding made while another function or a
\* top-level declaration was lowered is visible in it.
C20_OwnParametersAtEntry ==
    \A i \in 1..Len(gen.body_entries) : OwnParameters(gen.body_entries[i])


(***************************************************************************)
(* Properties of the end of a function.                                    *)
(***************************************************************************)

\* The instructions block b has got since the body of e was left.
Synthesized(g, e, b) ==
    {k \in 1..Len(g.blocks[b].instrs) : g.blocks[b].instrs[k].id >= e.next_id}

\* The last block of the function of e ends with the `ret void' that was
\* made first after the body.
ImplicitReturn(g, e) ==
    LET instrs == g.blocks[e.last].instrs IN
    /\ Len(instrs) > 0
    /\ instrs[Len(instrs)].id = e.next_id
    /\ instrs[Len(instrs)].op = "ret"
    /\ instrs[Len(instrs)].operands = <<>>

\* C21: at the end of visit(FunctionDecl), when the last basic block of the
\* function has no terminator, that block receives an implicit `ret void' if
\* the declared return type is void; if it is not, an error is logged and no
\* return instruction is synthesized.
C21_MissingReturn ==
    \A i \in 1..Len(gen.body_exits) :
        LET e == gen.body_exits[i] IN
        (e.unterminated /\ ~gen.crashed)
            => IF e.return_type = "VOID"
               THEN ImplicitReturn(gen, e)
               ELSE /\ \E k \in 1..Len(gen.log) :
                          gen.log[k] = "Function " \o IRName(e.name) \o " does not return a value"
                    /\ Synthesized(gen, e, e.last) = {}

\* generate() has lowered a void function whose body left the last block
\* without a terminator, and another function after it.
C21_Witness ==
    /\ pc = "write"
    /\ Len(gen.body_exits) = 2
    /\ gen.body_exits[1].unterminated
    /\ gen.body_exits[1].return_type = "VOID"
    /\ gen.body_exits[1].insert = gen.body_exits[1].last

(***************************************************************************)
(* Properties of the token dump.                                           *)
(***************************************************************************)

\* C22: run_lexer prints at most 500 token lines whatever the source is; when
\* the source holds more tokens than that, it prints the limit notice and
\* stops scanning.
C22_DumpCapped ==
    /\ run.lines <= MAX_TOKEN_COUNT
    /\ (pc = "exit" /\ Len(source) > MAX_TOKEN_COUNT)
          => (run.notice /\ lexer.m_CURRENT < Len(source))

(***************************************************************************)
(* Properties of the constructed parser.                                   *)
(***************************************************************************)

\* The first token of the source.
FirstToken == scan_token(Lexer(source)).tok

\* C23: once a Parser has been constructed over a Lexer whose source holds at
\* least one token, its current slot holds the first token of the source (and
\* every later advance() moves current into previous and pulls the next token
\* until END_OF_FILE is current).
C23_FirstTokenLoaded ==
    (pc = "parse" /\ FirstToken.type # "END_OF_FILE")
        => /\ parser.m_current = FirstToken
           /\ advance(parser).m_previous = FirstToken
           /\ advance(parser).pulls = parser.pulls + 1

(***************************************************************************)
(* Properties of type annotations.                                         *)
(***************************************************************************)

RECURSIVE ContainsReturn(_)
ContainsReturn(node) ==
    CASE node.kind = "ReturnStmt" -> TRUE
      [] node.kind = "BlockStmt" ->
            \E i \in 1..Len(node.statements) : ContainsReturn(node.statements[i])
      [] node.kind = "IfStmt" ->
            \/ ContainsReturn(node.then_branch)
            \/ (node.else_branch # Null /\ ContainsReturn(node.else_branch))
      [] node.kind = "WhileStmt" -> ContainsReturn(node.body)
      [] OTHER -> FALSE

\* C25: after visit(FunctionDecl) for a void function whose body holds no
\* return statement, every basic block of the function ends in a terminator,
\* however if and while are nested in the body.
C25_VoidBodiesTerminated ==
    (pc = "write" /\ gen.log = <<>>)
        => \A i \in 1..Len(gen.body_exits) :
              LET e == gen.body_exits[i] IN
              (e.return_type = "VOID" /\ ~ContainsReturn(e.body))
                  => \A k \in 1..Len(gen.functions[e.function].layout) :
                        HasTerminator(gen, gen.functions[e.function].layout[k])

(***************************************************************************)
(* Properties of the names of emitted functions.                           *)
(***************************************************************************)

\* C26: every top-level FunctionDecl is lowered into an IR function of its
\* own: the bodies of two declarations of different names never land in the
\* same IR function, also when one is named main (emitted as sleaf_main) and
\* the other is itself named sleaf_main.
C26_FunctionOfItsOwn ==
    \A i, j \in 1..Len(gen.body_exits) :
        gen.body_exits[i].name # gen.body_exits[j].name
            => gen.body_exits[i].function # gen.body_exits[j].function

(***************************************************************************)
(* Properties of the lowering of if.                                       *)
(***************************************************************************)

\* The last instruction of block b is op with the targets.
EndsIn(g, b, op, targets) ==
    LET instrs == g.blocks[b].instrs IN
    /\ Len(instrs) > 0
    /\ instrs[Len(instrs)].op = op
    /\ instrs[Len(instrs)].targets = targets

\* The blocks that carry one of the labels of an if.
IfBlocks(g) == {b \in 1..Len(g.blocks) : g.blocks[b].label \in {"then", "else", "ifcont"}}

\* C29: lowering an IfStmt creates exactly three new blocks, then, else and
\* merge; the block of the condition ends in a conditional branch to then and
\* else; the code of then and the code of else each end with an unconditional
\* branch to merge, the else block holding only that branch when there is no
\* else; and the insertion cursor is left in merge.
C29_IfLowering ==
    ~gen.crashed
        => /\ Cardinality(IfBlocks(gen)) = 3 * Len(gen.if_exits)
           /\ \A i \in 1..Len(gen.if_exits) :
                LET x == gen.if_exits[i]
                    then_block == x.before + 1
                    else_block == x.before + 2
                    merge_block == x.before + 3
                IN  /\ gen.blocks[then_block].label = "then"
                    /\ gen.blocks[else_block].label = "else"
                    /\ gen.blocks[merge_block].label = "ifcont"
                    /\ getParent(gen, then_block) = getParent(gen, x.cond_end)
                    /\ getParent(gen, else_block) = getParent(gen, x.cond_end)
                    /\ getParent(gen, merge_block) = getParent(gen, x.cond_end)
                    /\ EndsIn(gen, x.cond_end, "condbr", <<then_block, else_block>>)
                    /\ EndsIn(gen, x.then_end, "br", <<merge_block>>)
                    /\ EndsIn(gen, x.else_end, "br", <<merge_block>>)
                    /\ ~x.has_else => (x.else_end = else_block /\ Len(gen.blocks[else_block].instrs) = 1)
                    /\ x.insert = merge_block

\* generate() has lowered an if with an else and an if without one.
C29_Witness ==
    /\ pc = "write"
    /\ \E i \in 1..Len(gen.if_exits) : gen.if_exits[i].has_else
    /\ \E i \in 1..Len(gen.if_exits) : ~gen.if_exits[i].has_else

(***************************************************************************)
(* Properties of expression types.                                         *)
(***************************************************************************)

\* C30: BinaryExpr::get_type() returns F64 when the type of the left or of
\* the right operand is F32 or F64, and the largest signed integer kind, I64,
\* otherwise.
C30_BinaryType ==
    pc = "typed"
        => LET e == statements[1].expr IN
           run.type = IF {get_type(e.left), get_type(e.right)} \cap {"F32", "F64"} # {}
                      THEN "F64"
                      ELSE "I64"

\* The floating-point case alone: an operand of type F32 or F64 makes the
\* binary expression F64.
FloatOperandGivesF64 ==
    pc = "typed"
        => LET e == statements[1].expr IN
           ({get_type(e.left), get_type(e.right)} \cap {"F32", "F64"} # {}) => run.type = "F64"

(***************************************************************************)
(* Properties of lexical errors in the parser.                             *)
(***************************************************************************)

\* The first k tokens the lexer L hands out.
RECURSIVE TokensFrom(_, _)
TokensFrom(L, k) ==
    IF k = 0 THEN <<>>
    ELSE With(scan_token(L), LAMBDA r : <<r.tok>> \o TokensFrom(r.lex, k - 1))

\* The ERROR tokens among the tokens the parser has pulled.
ErrorsPulled ==
    {t \in {TokensFrom(Lexer(source), parser.pulls)[k] : k \in 1..parser.pulls} :
        t.type = "ERROR"}

\* Panic mode implies a counted error, and a parse() that returns after an
\* ERROR token was pulled has had_error().
LexicalErrorCounted ==
    /\ parser.m_panic_mode => parser.m_error_count >= 1
    /\ (pc = "parsed" /\ ErrorsPulled # {}) => had_error(parser)

Grouped(o1, o2) ==
    IF o2.level > o1.level
    THEN BinaryExpr(o1.type, Identifier("a"), BinaryExpr(o2.type, Identifier("b"), Identifier("c")))
    ELSE BinaryExpr(o2.type, BinaryExpr(o1.type, Identifier("a"), Identifier("b")), Identifier("c"))

\* The trees of MixedLevels.
MixedGrouped ==
    [k \in 1..6 |->
        CASE k = 1 -> [text |-> Join(<<<<"a">>, <<"=">>, <<"b">>, <<"=">>, <<"c">>, <<";">>>>),
                       node |-> AssignExpr("EQUAL", Identifier("a"),
                                           AssignExpr("EQUAL", Identifier("b"), Identifier("c")))]
          [] k = 2 -> [text |-> Join(<<<<"a">>, <<"=">>, <<"b">>, <<"|","|">>, <<"c">>, <<";">>>>),
                       node |-> AssignExpr("EQUAL", Identifier("a"),
                                           BinaryExpr("PIPE_PIPE", Identifier("b"), Identifier("c")))]
          [] k = 3 -> [text |-> Join(<<<<"a">>, <<"=">>, <<"b">>, <<"?">>, <<"c">>, <<":">>, <<"d">>, <<";">>>>),
                       node |-> AssignExpr("EQUAL", Identifier("a"),
                                    BinaryExpr("QUESTION", Identifier("b"),
                                        BinaryExpr("COLON", Identifier("c"), Identifier("d"))))]
          [] k = 4 -> [text |-> Join(<<<<"a">>, <<"|","|">>, <<"b">>, <<"?">>, <<"c">>, <<":">>, <<"d">>,
                                       <<"|","|">>, <<"e">>, <<";">>>>),
                       node |-> BinaryExpr("QUESTION",
                                    BinaryExpr("PIPE_PIPE", Identifier("a"), Identifier("b")),
                                    BinaryExpr("COLON", Identifier("c"),
                                        BinaryExpr("PIPE_PIPE", Identifier("d"), Identifier("e"))))]
          [] k = 5 -> [text |-> Join(<<<<"-">>, <<"a">>, <<"*">>, <<"b">>, <<";">>>>),
                       node |-> BinaryExpr("STAR", UnaryExpr("MINUS", Identifier("a")), Identifier("b"))]
          [] k = 6 -> [text |-> Join(<<<<"-">>, <<"f">>, <<"(">>, <<")">>, <<";">>>>),
                       node |-> UnaryExpr("MINUS", CallExpr(Identifier("f"), <<>>))]]

\* The declaration parsed first is the expression statement of node, parsed
\* without a diagnostic.
ParsedAs(node) == statements[1] = ExpressionStmt(node) /\ parser.cerr = <<>>

====
